---- MODULE Spec2Model ----
(***************************************************************************)
(* Model of the danmaku overlay scheduler of src/components/Danmaku.tsx:   *)
(* the TrackManager (lanes), the DanmakuPool (element free-list), the      *)
(* admission effect driven by the playback clock, the requestAnimationFrame*)
(* loop, and the reset / teardown effects.                                 *)
(*                                                                         *)
(* Units.  Playback-clock times (currentTime, item.time) and wall-clock    *)
(* durations are counted in half seconds, so Math.floor(t) of the source   *)
(* is FloorSec(t) = t \div 2 here and a fractional due time such as 1.5 s  *)
(* is the value 3.  Pixels are pixels; speed is 100 px/s = 50 px per unit. *)
(*                                                                         *)
(* Wall clock.  The source stores performance.now() in startTimestamp and  *)
(* only ever uses (now - startTimestamp); an instance therefore carries    *)
(* elapsed = now - startTimestamp, which AdvanceWall increases and which   *)
(* saturates at duration + 1: the source compares elapsed with duration    *)
(* and reads it for the position only while elapsed <= duration.           *)
(***************************************************************************)
EXTENDS Integers, Sequences, FiniteSets, TLC

VARIABLES
  mounted,            \* component is mounted (containerRef.current set)
  currentTime,        \* prop currentTime (half seconds)
  enabled,            \* prop enabled
  density,            \* prop density
  maxTracksState,     \* state maxTracksState
  containerHeight,    \* container.offsetHeight
  containerWidth,     \* container.offsetWidth
  selectedAnime,      \* state selectedAnime (0 = null)
  danmakuLoaded,      \* danmakuLoadedRef
  loading,            \* state loading
  error,              \* state error (FALSE = null)
  inflight,           \* the getDanmakuBySelectedAnime promises pending, each
                      \* the <<source, episode>> it was called with
  danmakuList,        \* state danmakuList
  listUnit,           \* history: the <<source, episode>> danmakuList was fetched for
  currentEpisode,     \* prop currentEpisode
  manualEpisode,      \* state manualEpisode: its number (Null = null)
  displayed,          \* displayedDanmakuRef (set of keys)
  active,             \* activeInstancesRef: Map in insertion order, <<key, id>>
  inst,               \* the DanmakuInstance objects, by reference
  tracks,             \* TrackManager.tracks: lane -> sequence of references
  tmMaxTracks,        \* TrackManager.maxTracks
  tmHeight,           \* TrackManager.containerHeight
  pool,               \* DanmakuPool.pool
  nextElem,           \* number of elements made by document.createElement, plus 1
  styled,             \* elements whose cssText, textContent or data-* are set
  topDanmakus,        \* topDanmakusRef
  bottomDanmakus,     \* bottomDanmakusRef
  topTrackIndex,      \* topTrackIndexRef
  bottomTrackIndex,   \* bottomTrackIndexRef
  lastDanmakuTime,    \* lastDanmakuTimeRef
  lastCurrentTime,    \* lastCurrentTimeRef
  held,               \* elements handed out to the pool's caller
  gets,               \* history: number of pool.get() calls
  rels,               \* history: number of pool.release() calls
  admits,             \* history: number of instances created
  tick                \* history: what the last admission effect run did

vars == <<mounted, currentTime, enabled, density, maxTracksState,
          containerHeight, containerWidth, selectedAnime, danmakuLoaded,
          loading, error, inflight, danmakuList, listUnit, currentEpisode,
          manualEpisode, displayed, active, inst,
          tracks, tmMaxTracks, tmHeight, pool, nextElem, styled, topDanmakus,
          bottomDanmakus, topTrackIndex, bottomTrackIndex, lastDanmakuTime,
          lastCurrentTime, held, gets, rels, admits, tick>>

(***************************************************************************)
(* Program constants                                                       *)
(***************************************************************************)
minTrackHeight == 30
maxPoolSize == 100
speed == 100
FixedDuration == 7          \* 3.5 s of the top / bottom instances
SlotCount == 5              \* top / bottom slots
MinConcurrent == 5
ConcurrentScale == 50
PerTickCap == 3
DefaultHeight == 400

Null == -1                  \* null / undefined of the source
Infinity == 1000000         \* the value Infinity of density = 0
NoUnit == <<0, 0>>          \* no source and no episode

(***************************************************************************)
(* Arithmetic helpers                                                      *)
(***************************************************************************)
Min2(a, b) == IF a <= b THEN a ELSE b
Max2(a, b) == IF a >= b THEN a ELSE b
CeilDiv(a, b) == (a + b - 1) \div b
FloorSec(t) == t \div 2
Range(f) == {f[i] : i \in DOMAIN f}

RECURSIVE SeqFilter(_, _)
\* Array.prototype.filter, Test is a set of accepted values
SeqFilter(sq, ok) ==
  IF sq = <<>> THEN <<>>
  ELSE IF Head(sq) \in ok THEN <<Head(sq)>> \o SeqFilter(Tail(sq), ok)
       ELSE SeqFilter(Tail(sq), ok)

\* Array.prototype.slice(0, n), with JavaScript's reading of a negative n
Slice0(sq, n) ==
  LET len == Len(sq)
      e == IF n < 0 THEN Max2(len + n, 0) ELSE Min2(n, len)
  IN SubSeq(sq, 1, e)

\* the key `${item.time}-${item.text}`
KeyOf(item) == <<item.time, item.text>>

(***************************************************************************)
(* DanmakuPool                                                             *)
(***************************************************************************)
\* element returned by get()
PoolGetElem(s) ==
  IF Len(s.pool) > 0 THEN s.pool[Len(s.pool)] ELSE s.nextElem

\* variant: get() hands out the last pooled element without popping it
PoolGetNoPop(s) ==
  IF Len(s.pool) > 0
  THEN [s EXCEPT !.gets = s.gets + 1]
  ELSE [s EXCEPT !.nextElem = s.nextElem + 1, !.gets = s.gets + 1]

\* the pool after get(): pop(), or a new element
PoolGet(s) ==
  IF Len(s.pool) > 0
  THEN [s EXCEPT !.pool = SubSeq(s.pool, 1, Len(s.pool) - 1),
                 !.gets = s.gets + 1]
  ELSE [s EXCEPT !.nextElem = s.nextElem + 1, !.gets = s.gets + 1]

\* variant: release without the maxPoolSize test
PoolReleaseNoCap(s, e) ==
  [s EXCEPT !.pool = Append(s.pool, e), !.rels = s.rels + 1,
            !.styled = s.styled \ {e}]

\* variant: release without the reset of the element
PoolReleaseNoReset(s, e) ==
  IF Len(s.pool) < maxPoolSize
  THEN [s EXCEPT !.pool = Append(s.pool, e), !.rels = s.rels + 1]
  ELSE [s EXCEPT !.rels = s.rels + 1]

\* release(): cssText, textContent and the data-* attributes are reset, then
\* the element is pushed, or dropped when the pool is full
PoolRelease(s, e) ==
  IF Len(s.pool) < maxPoolSize
  THEN [s EXCEPT !.pool = Append(s.pool, e), !.rels = s.rels + 1,
                 !.styled = s.styled \ {e}]
  ELSE [s EXCEPT !.rels = s.rels + 1, !.styled = s.styled \ {e}]

PoolClear(s) == [s EXCEPT !.pool = <<>>]

(***************************************************************************)
(* TrackManager                                                            *)
(***************************************************************************)
TrackCount(height, maxT) ==
  LET n == height \div minTrackHeight
  IN IF maxT > 0 /\ n > maxT THEN maxT ELSE n

\* variant: every lane of the new count starts empty
UpdateContainerHeightFresh(s, height) ==
  LET n == TrackCount(height, s.tmMaxTracks)
  IN [s EXCEPT !.tmHeight = height, !.tracks = [l \in 0..(n - 1) |-> <<>>]]

UpdateContainerHeight(s, height) ==
  LET n == TrackCount(height, s.tmMaxTracks)
  IN [s EXCEPT !.tmHeight = height,
               !.tracks = [l \in 0..(n - 1) |->
                             IF l \in DOMAIN s.tracks THEN s.tracks[l] ELSE <<>>]]

SetMaxTracksTM(s, maxT) ==
  UpdateContainerHeight([s EXCEPT !.tmMaxTracks = maxT], s.tmHeight)

\* new TrackManager(height, maxTracks)
NewTrackManager(s, height, maxT) ==
  UpdateContainerHeight([s EXCEPT !.tracks = <<>>, !.tmMaxTracks = maxT,
                                  !.tmHeight = height], height)

\* variant: an occupant is tested whether it is active or not
ConflictsAnyOccupant(o, danmakuWidth, cw) ==
  /\ ~(o.elapsed < 0 \/ o.elapsed > o.duration)
  /\ LET existingX == o.startX - (o.speed * o.elapsed) \div 2
         existingEndX == existingX + o.width
         newStartX == cw
         newEndX == newStartX + danmakuWidth
     IN newEndX > existingX /\ newStartX < existingEndX

\* does an occupant conflict with a candidate entering at containerWidth
Conflicts(o, danmakuWidth, cw) ==
  /\ o.isActive
  /\ ~(o.elapsed < 0 \/ o.elapsed > o.duration)
  /\ LET existingX == o.startX - (o.speed * o.elapsed) \div 2
         existingEndX == existingX + o.width
         newStartX == cw
         newEndX == newStartX + danmakuWidth
     IN newEndX > existingX /\ newStartX < existingEndX

LaneFree(s, l, danmakuWidth, cw) ==
  \A i \in 1..Len(s.tracks[l]) : ~Conflicts(s.inst[s.tracks[l][i]], danmakuWidth, cw)

\* variant: the lanes searched from the highest index down
FindHighestTrack(s, danmakuWidth, cw) ==
  LET free == {l \in DOMAIN s.tracks : LaneFree(s, l, danmakuWidth, cw)}
  IN IF free = {} THEN Null
     ELSE CHOOSE l \in free : \A m \in free : l >= m

FindAvailableTrack(s, danmakuWidth, cw) ==
  LET free == {l \in DOMAIN s.tracks : LaneFree(s, l, danmakuWidth, cw)}
  IN IF free = {} THEN Null
     ELSE CHOOSE l \in free : \A m \in free : l <= m

AddToTrack(s, l, id) ==
  IF l \in DOMAIN s.tracks
  THEN [s EXCEPT !.tracks[l] = Append(s.tracks[l], id)]
  ELSE [s EXCEPT !.tracks = [m \in (DOMAIN s.tracks) \cup {l} |->
                               IF m = l THEN <<id>> ELSE s.tracks[m]]]

\* indexOf + splice: the first occurrence is removed
RemoveFirst(sq, x) ==
  IF \E i \in 1..Len(sq) : sq[i] = x
  THEN LET i == CHOOSE j \in 1..Len(sq) : sq[j] = x /\ \A k \in 1..(j - 1) : sq[k] # x
       IN SubSeq(sq, 1, i - 1) \o SubSeq(sq, i + 1, Len(sq))
  ELSE sq

RemoveFromTrack(s, id) ==
  LET l == s.inst[id].track
  IN IF l \in DOMAIN s.tracks
     THEN [s EXCEPT !.tracks[l] = RemoveFirst(s.tracks[l], id)]
     ELSE s

ActiveIds(s) == {id \in DOMAIN s.inst : s.inst[id].isActive}

CleanupTracks(s) ==
  [s EXCEPT !.tracks = [l \in DOMAIN s.tracks |-> SeqFilter(s.tracks[l], ActiveIds(s))]]

(***************************************************************************)
(* activeInstancesRef: a Map, kept in insertion order                      *)
(***************************************************************************)
MapHas(m, k) == \E i \in 1..Len(m) : m[i][1] = k
MapGet(m, k) == m[CHOOSE i \in 1..Len(m) : m[i][1] = k][2]
MapSet(m, k, v) ==
  IF MapHas(m, k)
  THEN [i \in 1..Len(m) |-> IF m[i][1] = k THEN <<k, v>> ELSE m[i]]
  ELSE Append(m, <<k, v>>)
MapDelete(m, k) ==
  IF MapHas(m, k)
  THEN LET i == CHOOSE j \in 1..Len(m) : m[j][1] = k
       IN SubSeq(m, 1, i - 1) \o SubSeq(m, i + 1, Len(m))
  ELSE m
MapKeys(m) == {m[i][1] : i \in 1..Len(m)}
MapValues(m) == {m[i][2] : i \in 1..Len(m)}

(***************************************************************************)
(* createDanmakuInstance                                                   *)
(***************************************************************************)
ElemHeight == 30            \* element.offsetHeight of a rendered item

\* a fresh object reference
NewId(s) ==
  CHOOSE n \in 1..(Cardinality(DOMAIN s.inst) + 1) :
    n \notin DOMAIN s.inst /\ \A m \in 1..(n - 1) : m \in DOMAIN s.inst

\* createDanmakuInstance returns an instance (not null)
Creates(s, item) == KeyOf(item) \notin s.displayed /\ item.type \in {1, 2, 3}

NewInstance(s, item, track, e) ==
  LET base == [key |-> KeyOf(item), type |-> item.type, track |-> Null,
               startTime |-> e.currentTime, elapsed |-> 0,
               duration |-> FixedDuration, startX |-> e.cw \div 2,
               startY |-> 0, width |-> item.width, speed |-> 0,
               elem |-> PoolGetElem(s), isActive |-> TRUE, hidden |-> FALSE,
               x |-> e.cw \div 2]
  IN CASE item.type = 1 ->
            [base EXCEPT !.track = track,
                         !.duration = (2 * (e.cw + item.width)) \div speed,
                         !.startX = e.cw,
                         !.x = e.cw,
                         !.startY = track * 30 + 15,
                         !.speed = speed]
       [] item.type = 2 ->
            [base EXCEPT !.startY = 10 + s.topTrackIndex * 35]
       [] OTHER ->
            [base EXCEPT !.startY = e.ch - 10 - (s.bottomTrackIndex * 35) - ElemHeight]

\* variant: the bottom branch advances the top counter
CreateDanmakuInstanceOneCounter(s, item, track, e) ==
  IF KeyOf(item) \in s.displayed THEN s
  ELSE
    LET el == PoolGetElem(s)
        s1 == [PoolGet(s) EXCEPT !.styled = s.styled \cup {el}]
        id == NewId(s)
    IN IF item.type \notin {1, 2, 3} THEN PoolRelease(s1, el)
       ELSE
         LET s2 == [s1 EXCEPT
                      !.inst = [j \in (DOMAIN s.inst) \cup {id} |->
                                  IF j = id THEN NewInstance(s, item, track, e)
                                  ELSE s.inst[j]],
                      !.displayed = s.displayed \cup {KeyOf(item)},
                      !.active = MapSet(s.active, KeyOf(item), id),
                      !.admits = s.admits + 1]
         IN CASE item.type = 2 ->
                   [s2 EXCEPT !.topTrackIndex = (s.topTrackIndex + 1) % SlotCount,
                              !.topDanmakus = Append(s.topDanmakus, id)]
              [] item.type = 3 ->
                   [s2 EXCEPT !.topTrackIndex = (s.topTrackIndex + 1) % SlotCount,
                              !.bottomDanmakus = Append(s.bottomDanmakus, id)]
              [] OTHER -> s2

CreateDanmakuInstance(s, item, track, e) ==
  IF KeyOf(item) \in s.displayed THEN s
  ELSE
    LET el == PoolGetElem(s)
        s1 == [PoolGet(s) EXCEPT !.styled = s.styled \cup {el}]
        id == NewId(s)
    IN IF item.type \notin {1, 2, 3} THEN PoolRelease(s1, el)
       ELSE
         LET s2 == [s1 EXCEPT
                      !.inst = [j \in (DOMAIN s.inst) \cup {id} |->
                                  IF j = id THEN NewInstance(s, item, track, e)
                                  ELSE s.inst[j]],
                      !.displayed = s.displayed \cup {KeyOf(item)},
                      !.active = MapSet(s.active, KeyOf(item), id),
                      !.admits = s.admits + 1]
         IN CASE item.type = 2 ->
                   [s2 EXCEPT !.topTrackIndex = (s.topTrackIndex + 1) % SlotCount,
                              !.topDanmakus = Append(s.topDanmakus, id)]
              [] item.type = 3 ->
                   [s2 EXCEPT !.bottomTrackIndex = (s.bottomTrackIndex + 1) % SlotCount,
                              !.bottomDanmakus = Append(s.bottomDanmakus, id)]
              [] OTHER -> s2

(***************************************************************************)
(* animate: one requestAnimationFrame callback                             *)
(***************************************************************************)
\* variant: the cleanup also forgets the key in displayedDanmakuRef
RetireForgetKey(s, key) ==
  IF ~MapHas(s.active, key) THEN s
  ELSE
    LET id == MapGet(s.active, key)
        s1 == [s EXCEPT !.inst[id].isActive = FALSE,
                        !.displayed = s.displayed \ {key}]
        s2 == IF s.inst[id].type = 1 THEN RemoveFromTrack(s1, id) ELSE s1
        s3 == PoolRelease(s2, s.inst[id].elem)
    IN [s3 EXCEPT !.active = MapDelete(s3.active, key)]

\* variant: the cleanup without activeInstancesRef.delete(key)
RetireKeepInMap(s, key) ==
  IF ~MapHas(s.active, key) THEN s
  ELSE
    LET id == MapGet(s.active, key)
        s1 == [s EXCEPT !.inst[id].isActive = FALSE]
        s2 == IF s.inst[id].type = 1 THEN RemoveFromTrack(s1, id) ELSE s1
    IN PoolRelease(s2, s.inst[id].elem)

\* variant: the cleanup releases the element of a Scroll instance only when
\* the instance is found in its lane
RetireTrackedOnly(s, key) ==
  IF ~MapHas(s.active, key) THEN s
  ELSE
    LET id == MapGet(s.active, key)
        s1 == [s EXCEPT !.inst[id].isActive = FALSE]
        s2 == IF s.inst[id].type = 1 THEN RemoveFromTrack(s1, id) ELSE s1
        s3 == IF s.inst[id].type = 1 /\ s2.tracks = s1.tracks THEN s2
              ELSE PoolRelease(s2, s.inst[id].elem)
    IN [s3 EXCEPT !.active = MapDelete(s3.active, key)]

\* retire one instance: the body of the cleanup loop
Retire(s, key) ==
  IF ~MapHas(s.active, key) THEN s
  ELSE
    LET id == MapGet(s.active, key)
        s1 == [s EXCEPT !.inst[id].isActive = FALSE]
        s2 == IF s.inst[id].type = 1 THEN RemoveFromTrack(s1, id) ELSE s1
        s3 == PoolRelease(s2, s.inst[id].elem)
    IN [s3 EXCEPT !.active = MapDelete(s3.active, key)]

RECURSIVE RetireAll(_, _)
RetireAll(s, keys) ==
  IF keys = <<>> THEN s ELSE RetireAll(Retire(s, Head(keys)), Tail(keys))

\* the keys pushed to instancesToRemove, in Map order
RECURSIVE InstancesToRemove(_, _, _)
InstancesToRemove(s, m, e) ==
  IF m = <<>> THEN <<>>
  ELSE
    LET i == s.inst[Head(m)[2]]
        rest == InstancesToRemove(s, Tail(m), e)
    IN IF ~i.isActive THEN <<Head(m)[1]>> \o rest
       ELSE IF e.currentTime - i.startTime < 0 THEN rest
       ELSE IF i.elapsed > i.duration THEN <<Head(m)[1]>> \o rest
       ELSE rest

\* variant: the frame hides instances only while the overlay is disabled
SetOpacityByEnabled(s, e) ==
  [s EXCEPT !.inst = [id \in DOMAIN s.inst |->
     IF id \in MapValues(s.active) /\ s.inst[id].isActive
     THEN [s.inst[id] EXCEPT !.hidden = ~e.enabled]
     ELSE s.inst[id]]]

\* element.style.opacity = '0' (hidden) or String(instance.opacity), for the
\* active instances of the Map: all are hidden while the overlay is
\* disabled, else those whose startTime is after the clock position
SetOpacity(s, e) ==
  [s EXCEPT !.inst = [id \in DOMAIN s.inst |->
     IF id \in MapValues(s.active) /\ s.inst[id].isActive
     THEN [s.inst[id] EXCEPT
             !.hidden = ~e.enabled \/ e.currentTime - s.inst[id].startTime < 0]
     ELSE s.inst[id]]]

\* variant: the scroll position follows the playback clock
SetTransformByClock(s, e) ==
  [s EXCEPT !.inst = [id \in DOMAIN s.inst |->
     LET i == s.inst[id]
     IN IF /\ id \in MapValues(s.active) /\ i.isActive /\ e.enabled
           /\ i.type = 1 /\ e.currentTime - i.startTime >= 0
           /\ i.elapsed <= i.duration
        THEN [i EXCEPT !.x = i.startX - ((i.startX - (0 - i.width))
                                           * (e.currentTime - i.startTime))
                                          \div i.duration]
        ELSE i]]

\* element.style.transform of the scroll instances the enabled frame moves:
\* x = startX - (startX - endX) * (elapsed / duration), with endX = -width
SetTransform(s, e) ==
  [s EXCEPT !.inst = [id \in DOMAIN s.inst |->
     LET i == s.inst[id]
     IN IF /\ id \in MapValues(s.active) /\ i.isActive /\ e.enabled
           /\ i.type = 1 /\ e.currentTime - i.startTime >= 0
           /\ i.elapsed <= i.duration
        THEN [i EXCEPT !.x = i.startX - ((i.startX - (0 - i.width)) * i.elapsed)
                                          \div i.duration]
        ELSE i]]

\* variant: the frame does not look at enabled
AnimateAlways(s, e) ==
  LET s1 == UpdateContainerHeight(s, e.ch)
      s2 == RetireAll(s1, InstancesToRemove(s1, s1.active, e))
      s3 == [s2 EXCEPT
               !.topDanmakus = SeqFilter(s2.topDanmakus, ActiveIds(s2)),
               !.bottomDanmakus = SeqFilter(s2.bottomDanmakus, ActiveIds(s2))]
  IN CleanupTracks(s3)

Animate(s, e) ==
  LET s1 == SetTransform(SetOpacity(UpdateContainerHeight(s, e.ch), e), e)
  IN IF ~e.enabled THEN s1
     ELSE
       LET s2 == RetireAll(s1, InstancesToRemove(s1, s1.active, e))
           s3 == [s2 EXCEPT
                    !.topDanmakus = SeqFilter(s2.topDanmakus, ActiveIds(s2)),
                    !.bottomDanmakus = SeqFilter(s2.bottomDanmakus, ActiveIds(s2))]
       IN CleanupTracks(s3)

(***************************************************************************)
(* The admission effect ("显示弹幕"), run after a render in which           *)
(* currentTime, danmakuList, enabled, loading or density changed.          *)
(* e is the render's view of props and state:                              *)
(*   [currentTime, enabled, loading, density, danmakuList, cw, ch]         *)
(***************************************************************************)
\* variant: the display interval is 0.5 s at every density
RateLimitedHalfSecond(since, d) ==
  IF d > 0 THEN since < 1 ELSE TRUE

\* timeSinceLastDanmaku < displayInterval, with
\* displayInterval = density > 0 ? max(0.5, 100 / density) : Infinity seconds
RateLimited(since, d) ==
  IF d > 0 THEN since < 1 \/ since * d < 200 ELSE TRUE

\* Math.max(5, Math.floor((density / 100) * 50))
MaxConcurrent(d) == Max2(MinConcurrent, (d * ConcurrentScale) \div 100)

\* Math.max(1, Math.ceil(displayInterval)), in seconds
TimeWindow(d) == IF d > 0 THEN Max2(1, CeilDiv(100, d)) ELSE Infinity

ScrollCount(s) ==
  Cardinality({i \in 1..Len(s.active) :
                 s.inst[s.active[i][2]].type = 1 /\ s.inst[s.active[i][2]].isActive})

IsSeekingBackward(s, e) == e.currentTime < s.lastCurrentTime

RECURSIVE ItemFilter(_, _, _)
\* danmakuList.filter(item => lo <= Math.floor(item.time) < hi)
ItemFilter(list, lo, hi) ==
  IF list = <<>> THEN <<>>
  ELSE IF FloorSec(Head(list).time) >= lo /\ FloorSec(Head(list).time) < hi
       THEN <<Head(list)>> \o ItemFilter(Tail(list), lo, hi)
       ELSE ItemFilter(Tail(list), lo, hi)

\* currentDanmaku before the density filter
Candidates(s, e) ==
  LET cs == FloorSec(e.currentTime)
  IN IF IsSeekingBackward(s, e)
     THEN ItemFilter(e.danmakuList, cs, cs + 1)
     ELSE ItemFilter(e.danmakuList, cs, cs + TimeWindow(e.density))

TargetCount(s, e) ==
  LET n == Len(Candidates(s, e))
      remainingCapacity == MaxConcurrent(e.density) - ScrollCount(s)
      densityBasedCount == CeilDiv(n * e.density, 100)
  IN Min2(remainingCapacity, Min2(densityBasedCount, PerTickCap))

\* variant: the two gates without their !isSeekingBackward test
GatedOutOnSeek(s, e) ==
  \/ e.loading
  \/ ~e.enabled
  \/ RateLimited(e.currentTime - s.lastDanmakuTime, e.density)
  \/ ScrollCount(s) >= MaxConcurrent(e.density)

\* the effect returns before it looks at the candidates
GatedOut(s, e) ==
  \/ e.loading
  \/ ~e.enabled
  \/ ~IsSeekingBackward(s, e)
       /\ RateLimited(e.currentTime - s.lastDanmakuTime, e.density)
  \/ ~IsSeekingBackward(s, e) /\ ScrollCount(s) >= MaxConcurrent(e.density)

\* force-expire one instance of the backward-seek repair
ForceExpire(s, key) ==
  LET r == Retire(s, key)
  IN [r EXCEPT !.displayed = r.displayed \ {key}]

RECURSIVE ForceExpireAll(_, _)
ForceExpireAll(s, keys) ==
  IF keys = <<>> THEN s ELSE ForceExpireAll(ForceExpire(s, Head(keys)), Tail(keys))

RECURSIVE KeysDueAfter(_, _, _)
\* variant: the instances whose item is due after currentTime
KeysDueAfter(s, m, ct) ==
  IF m = <<>> THEN <<>>
  ELSE IF Head(m)[1][1] > ct
       THEN <<Head(m)[1]>> \o KeysDueAfter(s, Tail(m), ct)
       ELSE KeysDueAfter(s, Tail(m), ct)

RECURSIVE KeysStartedAfter(_, _, _)
\* keys of the Map, in order, whose instance has startTime > currentTime
KeysStartedAfter(s, m, ct) ==
  IF m = <<>> THEN <<>>
  ELSE IF s.inst[Head(m)[2]].startTime > ct
       THEN <<Head(m)[1]>> \o KeysStartedAfter(s, Tail(m), ct)
       ELSE KeysStartedAfter(s, Tail(m), ct)

\* variant: the backward-seek branch without its second loop
SeekRepairKeepsKeys(s, e) ==
  ForceExpireAll(s, KeysStartedAfter(s, s.active, e.currentTime))

\* the backward-seek branch: force-expire, then forget the current second
SeekRepair(s, e) ==
  LET cs == FloorSec(e.currentTime)
      s1 == ForceExpireAll(s, KeysStartedAfter(s, s.active, e.currentTime))
      now == {KeyOf(e.danmakuList[i]) : i \in
                {j \in 1..Len(e.danmakuList) : FloorSec(e.danmakuList[j].time) = cs}}
  IN [s1 EXCEPT !.displayed = s1.displayed \ now]

\* variant: the creation loop without its activeInstancesRef.has(key) test
AdmitOneNoActiveCheck(s, item, e) ==
  IF KeyOf(item) \in s.displayed THEN s
  ELSE IF item.type = 1
       THEN LET track == FindAvailableTrack(s, item.width, e.cw)
            IN IF track = Null THEN s
               ELSE IF Creates(s, item)
                    THEN AddToTrack(CreateDanmakuInstance(s, item, track, e),
                                    track, NewId(s))
                    ELSE CreateDanmakuInstance(s, item, track, e)
       ELSE CreateDanmakuInstance(s, item, Null, e)

\* one iteration of the creation loop
AdmitOne(s, item, e) ==
  IF KeyOf(item) \in s.displayed THEN s
  ELSE IF MapHas(s.active, KeyOf(item)) THEN s
  ELSE IF item.type = 1
       THEN LET track == FindAvailableTrack(s, item.width, e.cw)
            IN IF track = Null THEN s
               ELSE IF Creates(s, item)
                    THEN AddToTrack(CreateDanmakuInstance(s, item, track, e),
                                    track, NewId(s))
                    ELSE CreateDanmakuInstance(s, item, track, e)
       ELSE CreateDanmakuInstance(s, item, Null, e)

RECURSIVE AdmitAll(_, _, _)
AdmitAll(s, items, e) ==
  IF items = <<>> THEN s ELSE AdmitAll(AdmitOne(s, Head(items), e), Tail(items), e)

\* [...currentDanmaku].sort(() => Math.random() - 0.5).slice(0, targetCount);
\* perm is the order the random sort produced
Selected(s, e, perm) ==
  LET c == Candidates(s, e)
  IN IF Len(c) > 0
     THEN Slice0([i \in 1..Len(c) |-> c[perm[i]]], TargetCount(s, e))
     ELSE c

AdmissionEffect(s, e, perm) ==
  IF e.loading \/ ~e.enabled THEN s
  ELSE
    LET s1 == [s EXCEPT !.lastCurrentTime = e.currentTime]
    IN IF GatedOut(s, e) THEN s1
       ELSE
         LET s2 == IF IsSeekingBackward(s, e) THEN SeekRepair(s1, e) ELSE s1
             sel == Selected(s, e, perm)
         IN IF Len(sel) = 0 THEN s2
            ELSE AdmitAll([s2 EXCEPT !.lastDanmakuTime = e.currentTime], sel, e)

(***************************************************************************)
(* Bounds and input sets                                                   *)
(***************************************************************************)
MaxInflight == 1            \* fetches pending at the same time
EpisodeCount == 2           \* selectedAnime.episodes.length
MaxPending == 2             \* fetches pending while the content unit changes
MaxStale == 1               \* retired objects still referenced before a frame
MaxGets == 4                \* pool.get() calls counted by the history variables
MaxHeld == 3                \* elements the pool's caller holds at once
PlayMaxClock == 10          \* last position of the 1-second-step playback

\* items: time in half seconds, type 1 scroll / 2 top / 3 bottom, text,
\* width = offsetWidth of the rendered text
Item(tm, ty, tx, w) == [time |-> tm, type |-> ty, text |-> tx, width |-> w]

\* a scroll item listed twice, and a top item in the same second
ListA == <<Item(2, 1, "a", 100), Item(3, 2, "c", 50), Item(2, 1, "a", 100)>>
\* three scroll items of the same second
ListLanes == <<Item(2, 1, "a", 100), Item(3, 1, "b", 50), Item(2, 1, "c", 50)>>
\* a scroll item, an item of an unknown type and a bottom item
ListCount == <<Item(2, 1, "a", 50), Item(2, 4, "f", 50), Item(3, 3, "e", 50)>>
\* one scroll item in second 3
ListIdem == <<Item(6, 1, "a", 100)>>
\* six scroll items of the same second
DenseTexts == <<"s1", "s2", "s3", "s4", "s5", "s6">>
ListDense == [i \in 1..6 |-> Item(2, 1, DenseTexts[i], 50)]
\* a top item and a scroll item of second 2, a bottom item of second 4
ListForward == <<Item(4, 2, "c", 50), Item(5, 1, "a", 100), Item(8, 3, "e", 50)>>
\* a scroll item of second 1, a top item and a scroll item of second 2
ListSeek == <<Item(2, 1, "a", 100), Item(4, 2, "c", 50), Item(5, 1, "b", 50)>>
\* a top, a bottom and a scroll item of second 1
ListSlots == <<Item(2, 2, "c", 50), Item(2, 3, "e", 50), Item(3, 1, "a", 50)>>
\* one scroll item
ListUnit == <<Item(2, 1, "a", 100)>>
\* the single event of the playback scenario and its due times
PlayDueTimes == {0, 2, 3, 4}
ListPlay(d) == <<Item(d, 1, "hi", 50)>>

Perms(n) == {f \in [1..n -> 1..n] : \A i, j \in 1..n : f[i] = f[j] => i = j}
Rotations(n) ==
  IF n = 0 THEN {<<>>}
  ELSE {[i \in 1..n |-> ((i - 1 + k) % n) + 1] : k \in 0..(n - 1)}

\* What a specification lets the environment do: the positions the clock is
\* set to (step > 0: only currentTime + step), the densities, container
\* sizes, maxTracks values and event lists, the orders the random sort may
\* produce, the wall-clock steps, whether the history variables and the
\* elements' opacity are kept,
\* and whether a source is selected again while one is selected.
CfgMain ==
  [clocks |-> {2, 3}, step |-> 0, densities |-> {100}, heights |-> {60},
   widths |-> {100}, maxTracks |-> {0}, lists |-> {ListA},
   perms |-> "rot", dts |-> {2}, ghost |-> FALSE, counts |-> FALSE, style |-> FALSE,
   reselect |-> FALSE, sources |-> {1}, episodes |-> {1},
   manual |-> {}, pending |-> MaxInflight]
CfgLanes ==
  [clocks |-> {2, 3}, step |-> 0, densities |-> {100}, heights |-> {30, 60},
   widths |-> {100}, maxTracks |-> {0, 1}, lists |-> {ListLanes},
   perms |-> "rot", dts |-> {2}, ghost |-> FALSE, counts |-> FALSE, style |-> FALSE,
   reselect |-> FALSE, sources |-> {1}, episodes |-> {1},
   manual |-> {}, pending |-> MaxInflight]
CfgCount ==
  [clocks |-> {2, 3}, step |-> 0, densities |-> {100}, heights |-> {60},
   widths |-> {100}, maxTracks |-> {0}, lists |-> {ListCount},
   perms |-> "all", dts |-> {2}, ghost |-> TRUE, counts |-> TRUE, style |-> TRUE,
   reselect |-> FALSE, sources |-> {1}, episodes |-> {1},
   manual |-> {}, pending |-> MaxInflight]
CfgIdem ==
  [clocks |-> {0, 4, 6, 8}, step |-> 0, densities |-> {50}, heights |-> {60},
   widths |-> {100}, maxTracks |-> {0}, lists |-> {ListIdem},
   perms |-> "all", dts |-> {2}, ghost |-> FALSE, counts |-> FALSE, style |-> FALSE,
   reselect |-> FALSE, sources |-> {1}, episodes |-> {1},
   manual |-> {}, pending |-> MaxInflight]
CfgDense ==
  [clocks |-> {2, 3}, step |-> 0, densities |-> {0, 10, 100}, heights |-> {180},
   widths |-> {100}, maxTracks |-> {0}, lists |-> {ListDense},
   perms |-> "blk", dts |-> {2}, ghost |-> TRUE, counts |-> FALSE, style |-> FALSE,
   reselect |-> FALSE, sources |-> {1}, episodes |-> {1},
   manual |-> {}, pending |-> MaxInflight]
CfgPlay ==
  [clocks |-> 0..PlayMaxClock, step |-> 2, densities |-> {100}, heights |-> {60},
   widths |-> {100}, maxTracks |-> {0}, lists |-> {ListPlay(d) : d \in PlayDueTimes},
   perms |-> "all", dts |-> {2}, ghost |-> TRUE, counts |-> TRUE, style |-> FALSE,
   reselect |-> FALSE, sources |-> {1}, episodes |-> {1},
   manual |-> {}, pending |-> MaxInflight]
CfgForward ==
  [clocks |-> {4, 5, 8}, step |-> 0, densities |-> {50, 100}, heights |-> {60},
   widths |-> {100}, maxTracks |-> {0}, lists |-> {ListForward},
   perms |-> "rot", dts |-> {4}, ghost |-> TRUE, counts |-> TRUE, style |-> FALSE,
   reselect |-> FALSE, sources |-> {1}, episodes |-> {1},
   manual |-> {}, pending |-> MaxInflight]
CfgSeek ==
  [clocks |-> {2, 4, 5}, step |-> 0, densities |-> {0, 100}, heights |-> {60},
   widths |-> {100}, maxTracks |-> {0}, lists |-> {ListSeek},
   perms |-> "all", dts |-> {4}, ghost |-> TRUE, counts |-> FALSE, style |-> FALSE,
   reselect |-> FALSE, sources |-> {1}, episodes |-> {1},
   manual |-> {}, pending |-> MaxInflight]
\* the elements' opacity and transform are observed
CfgStyle ==
  [clocks |-> {2, 3}, step |-> 0, densities |-> {100}, heights |-> {60},
   widths |-> {100}, maxTracks |-> {0}, lists |-> {ListUnit},
   perms |-> "rot", dts |-> {2}, ghost |-> TRUE, counts |-> FALSE, style |-> TRUE,
   reselect |-> TRUE, sources |-> {1}, episodes |-> {1},
   manual |-> {}, pending |-> MaxInflight]
\* a container too low for a lane
CfgSlots ==
  [clocks |-> {2, 3}, step |-> 0, densities |-> {50, 100}, heights |-> {20},
   widths |-> {100}, maxTracks |-> {0}, lists |-> {ListSlots},
   perms |-> "all", dts |-> {8}, ghost |-> TRUE, counts |-> FALSE, style |-> FALSE,
   reselect |-> FALSE, sources |-> {1}, episodes |-> {1},
   manual |-> {}, pending |-> MaxInflight]
CfgFetch ==
  [clocks |-> {2}, step |-> 0, densities |-> {100}, heights |-> {60},
   widths |-> {100}, maxTracks |-> {0}, lists |-> {ListUnit},
   perms |-> "rot", dts |-> {2}, ghost |-> TRUE, counts |-> FALSE, style |-> FALSE,
   reselect |-> TRUE, sources |-> {1}, episodes |-> {1, 2},
   manual |-> {0, 2, EpisodeCount + 1}, pending |-> MaxPending]

\* the rotations by whole groups of PerTickCap items
BlockRotations(n) ==
  IF n = 0 THEN {<<>>}
  ELSE {[i \in 1..n |-> ((i - 1 + k) % n) + 1] :
          k \in {j \in 0..(n - 1) : j % PerTickCap = 0}}

PermSet(cfg, n) ==
  IF cfg.perms = "all" THEN Perms(n)
  ELSE IF cfg.perms = "rot" THEN Rotations(n)
  ELSE BlockRotations(n)

(***************************************************************************)
(* The component's refs as one record, and back                            *)
(***************************************************************************)
NoOp == [op |-> "none", created |-> 0, remaining |-> 0, due |-> 0, d |-> 0]

S ==
  [displayed |-> displayed, active |-> active, inst |-> inst, tracks |-> tracks,
   tmMaxTracks |-> tmMaxTracks, tmHeight |-> tmHeight, pool |-> pool,
   nextElem |-> nextElem, styled |-> styled, topDanmakus |-> topDanmakus,
   bottomDanmakus |-> bottomDanmakus, topTrackIndex |-> topTrackIndex,
   bottomTrackIndex |-> bottomTrackIndex, lastDanmakuTime |-> lastDanmakuTime,
   lastCurrentTime |-> lastCurrentTime, gets |-> gets, rels |-> rels,
   admits |-> admits]

Env(ct, en, ld, d, list) ==
  [currentTime |-> ct, enabled |-> en, loading |-> ld, density |-> d,
   danmakuList |-> list, cw |-> containerWidth, ch |-> containerHeight]

Referenced(s) ==
  MapValues(s.active) \cup Range(s.topDanmakus) \cup Range(s.bottomDanmakus)
    \cup UNION {Range(s.tracks[l]) : l \in DOMAIN s.tracks}

\* a retired object: the program reads nothing of it but isActive any more,
\* so its other mutable fields are dropped from the state
Stale(i) ==
  [i EXCEPT !.startTime = 0, !.elapsed = 0, !.duration = 0, !.startX = 0,
            !.startY = 0, !.elem = 0, !.hidden = FALSE, !.x = 0]

\* objects that are not active and that nothing refers to are garbage
Collect(s) ==
  [s EXCEPT !.inst = [id \in {j \in DOMAIN s.inst :
                                 s.inst[j].isActive \/ j \in Referenced(s)}
                        |-> IF s.inst[id].isActive THEN s.inst[id]
                            ELSE Stale(s.inst[id])]]

RECURSIVE SetToSeq(_)
\* the elements of a set of numbers, in increasing order
SetToSeq(X) ==
  IF X = {} THEN <<>>
  ELSE LET m == CHOOSE x \in X : \A y \in X : x <= y
       IN <<m>> \o SetToSeq(X \ {m})

RECURSIVE Dedupe(_, _)
\* the sequence without the repetitions and without the members of seen
Dedupe(sq, seen) ==
  IF sq = <<>> THEN <<>>
  ELSE IF Head(sq) \in seen THEN Dedupe(Tail(sq), seen)
       ELSE <<Head(sq)>> \o Dedupe(Tail(sq), seen \cup {Head(sq)})

RECURSIVE FlattenTracks(_, _)
FlattenTracks(tr, l) ==
  IF l \notin DOMAIN tr THEN <<>> ELSE tr[l] \o FlattenTracks(tr, l + 1)

\* Object references are opaque: the objects are renumbered in the order in
\* which the Map, the lanes and the top / bottom arrays reach them, so that
\* two heaps that differ only in the names of the references are one state.
RefOrder(s) ==
  Dedupe([i \in 1..Len(s.active) |-> s.active[i][2]]
           \o FlattenTracks(s.tracks, 0) \o s.topDanmakus \o s.bottomDanmakus
           \o SetToSeq(DOMAIN s.inst), {})

RenumberRefs(s) ==
  LET ord == RefOrder(s)
      new(id) == CHOOSE n \in 1..Len(ord) : ord[n] = id
      ren(sq) == [i \in 1..Len(sq) |-> new(sq[i])]
  IN [s EXCEPT !.inst = [n \in 1..Len(ord) |-> s.inst[ord[n]]],
               !.active = [i \in 1..Len(s.active) |->
                             <<s.active[i][1], new(s.active[i][2])>>],
               !.tracks = [l \in DOMAIN s.tracks |-> ren(s.tracks[l])],
               !.topDanmakus = ren(s.topDanmakus),
               !.bottomDanmakus = ren(s.bottomDanmakus)]

\* Elements are opaque too: they are renumbered in the order in which the
\* pool and then the instances reach them, the unreachable ones last.
ElemOrder(s) ==
  LET made == 1..(s.nextElem - 1)
      owned == [n \in 1..Len(s.inst) |-> s.inst[n].elem]
  IN Dedupe(SeqFilter(s.pool \o owned, made) \o SetToSeq(made), {})

RenumberElems(s) ==
  LET ord == ElemOrder(s)
      new(h) == IF h \in Range(ord) THEN CHOOSE n \in 1..Len(ord) : ord[n] = h
                ELSE h
  IN [s EXCEPT !.pool = [i \in 1..Len(s.pool) |-> new(s.pool[i])],
               !.styled = {new(h) : h \in s.styled},
               !.inst = [n \in DOMAIN s.inst |->
                           [s.inst[n] EXCEPT !.elem = new(s.inst[n].elem)]]]

Renumber(s) == RenumberElems(RenumberRefs(s))

StaleCount(s) == Cardinality({id \in DOMAIN s.inst : ~s.inst[id].isActive})

\* nothing but animate's own writes depends on an element's opacity and
\* transform: they are kept only where a specification asks for them
Unstyled(s, cfg) ==
  IF cfg.style THEN s
  ELSE [s EXCEPT !.inst = [id \in DOMAIN s.inst |->
                             [s.inst[id] EXCEPT !.hidden = FALSE, !.x = 0]]]

Commit(s0, cfg, lastop) ==
  \E s \in {Unstyled(Renumber(Collect(s0)), cfg)} :
    /\ StaleCount(s) <= MaxStale
    /\ displayed' = s.displayed
    /\ active' = s.active
    /\ inst' = s.inst
    /\ tracks' = s.tracks
    /\ tmMaxTracks' = s.tmMaxTracks
    /\ tmHeight' = s.tmHeight
    /\ pool' = s.pool
    /\ nextElem' = s.nextElem
    /\ styled' = s.styled
    /\ topDanmakus' = s.topDanmakus
    /\ bottomDanmakus' = s.bottomDanmakus
    /\ topTrackIndex' = s.topTrackIndex
    /\ bottomTrackIndex' = s.bottomTrackIndex
    /\ lastDanmakuTime' = s.lastDanmakuTime
    /\ lastCurrentTime' = s.lastCurrentTime
    /\ UNCHANGED held
    /\ IF cfg.counts
       THEN /\ s.gets <= MaxGets
            /\ gets' = s.gets
            /\ rels' = s.rels
            /\ admits' = s.admits
       ELSE UNCHANGED <<gets, rels, admits>>
    /\ tick' = IF cfg.ghost THEN lastop ELSE tick

\* history record of an admission effect run from state s in environment e
TickOp(s, e, s2) ==
  [op |-> "tick", created |-> s2.admits - s.admits,
   remaining |-> MaxConcurrent(e.density) - ScrollCount(s),
   due |-> Len(Candidates(s, e)), d |-> e.density]

propVars == <<currentTime, enabled, density, maxTracksState>>
sizeVars == <<containerHeight, containerWidth>>
unitVars == <<currentEpisode, manualEpisode>>
fetchVars ==
  <<selectedAnime, danmakuLoaded, loading, error, inflight, danmakuList,
    listUnit, unitVars>>

(***************************************************************************)
(* Initial state: the component has mounted with an empty event list; the  *)
(* mount effects have built the TrackManager for the container height.     *)
(***************************************************************************)
EmptyRefs ==
  [displayed |-> {}, active |-> <<>>, inst |-> <<>>, tracks |-> <<>>,
   tmMaxTracks |-> 0, tmHeight |-> 0, pool |-> <<>>, nextElem |-> 1,
   styled |-> {},
   topDanmakus |-> <<>>, bottomDanmakus |-> <<>>, topTrackIndex |-> 0,
   bottomTrackIndex |-> 0, lastDanmakuTime |-> 0, lastCurrentTime |-> 0,
   gets |-> 0, rels |-> 0, admits |-> 0]

\* container.offsetHeight || 400
HeightOr400(h) == IF h = 0 THEN DefaultHeight ELSE h

\* list: the event list already loaded (<<>>: none, no source selected);
\* pl, hd: the pool's free list and the elements its caller holds
InitFrom(cfg, list, pl, hd) ==
  /\ mounted = TRUE
  /\ currentTime = 0
  /\ enabled = TRUE
  /\ density \in cfg.densities
  /\ maxTracksState = 0
  /\ containerHeight \in cfg.heights
  /\ containerWidth \in cfg.widths
  /\ selectedAnime = IF list = <<>> THEN 0 ELSE 1
  /\ danmakuLoaded = (list # <<>>)
  /\ loading = FALSE
  /\ error = FALSE
  /\ inflight = <<>>
  /\ danmakuList = list
  /\ listUnit = IF list = <<>> THEN NoUnit ELSE <<1, 1>>
  /\ currentEpisode = 1
  /\ manualEpisode = Null
  /\ displayed = {}
  /\ active = <<>>
  /\ inst = <<>>
  /\ tracks = NewTrackManager(EmptyRefs, HeightOr400(containerHeight), 0).tracks
  /\ tmMaxTracks = 0
  /\ tmHeight = HeightOr400(containerHeight)
  /\ pool = pl
  /\ nextElem = Len(pl) + Cardinality(hd) + 1
  /\ styled = hd
  /\ topDanmakus = <<>>
  /\ bottomDanmakus = <<>>
  /\ topTrackIndex = 0
  /\ bottomTrackIndex = 0
  /\ lastDanmakuTime = 0
  /\ lastCurrentTime = 0
  /\ held = hd
  /\ gets = 0
  /\ rels = 0
  /\ admits = 0
  /\ tick = NoOp

InitWith(cfg) == InitFrom(cfg, <<>>, <<>>, {})

(***************************************************************************)
(* Actions: one per render cause or callback                               *)
(***************************************************************************)
\* the player reports a new playback position: the admission effect runs
SetCurrentTime(cfg) ==
  \E t \in cfg.clocks :
    /\ mounted
    /\ t # currentTime
    /\ cfg.step = 0 \/ t = currentTime + cfg.step
    /\ LET e == Env(t, enabled, loading, density, danmakuList)
       IN \E perm \in PermSet(cfg, Len(Candidates(S, e))) :
            LET s2 == AdmissionEffect(S, e, perm)
            IN Commit(s2, cfg, TickOp(S, e, s2))
    /\ currentTime' = t
    /\ UNCHANGED <<mounted, enabled, density, maxTracksState, sizeVars, fetchVars>>

\* wall-clock time passes between two callbacks
AdvanceWall(cfg) ==
  \E dt \in cfg.dts :
    /\ mounted
    /\ \E id \in DOMAIN inst : inst[id].isActive /\ inst[id].elapsed <= inst[id].duration
    /\ inst' = [id \in DOMAIN inst |->
                  IF inst[id].isActive
                  THEN [inst[id] EXCEPT
                          !.elapsed = Min2(inst[id].elapsed + dt, inst[id].duration + 1)]
                  ELSE inst[id]]
    /\ tick' = IF cfg.ghost THEN [NoOp EXCEPT !.op = "wall"] ELSE tick
    /\ UNCHANGED <<mounted, propVars, sizeVars, fetchVars, displayed, active,
                   tracks, tmMaxTracks, tmHeight, pool, nextElem, styled, topDanmakus,
                   bottomDanmakus, topTrackIndex, bottomTrackIndex,
                   lastDanmakuTime, lastCurrentTime, held, gets, rels, admits>>

\* a requestAnimationFrame callback
AnimationFrame(cfg) ==
  /\ mounted
  /\ Commit(Animate(S, Env(currentTime, enabled, loading, density, danmakuList)),
            cfg, [NoOp EXCEPT !.op = "frame"])
  /\ UNCHANGED <<mounted, propVars, sizeVars, fetchVars>>

\* manualEpisode?.number || currentEpisode
ActualEpisode(manual, current) ==
  IF manual # Null /\ manual # 0 THEN manual ELSE current

\* variant: the guard without danmakuLoadedRef
StartsFetchUnlessLoaded(sel, ep, en, loaded) == sel # 0 /\ ep # 0 /\ en

\* the loadDanmaku effect starts a fetch
StartsFetch(sel, ep, en, loaded) == sel # 0 /\ ep # 0 /\ en /\ ~loaded

\* the loadDanmaku effect, run because one of its dependencies changed, for
\* source sel and episode ep
LoadDanmaku(cfg, sel, ep, en, loaded) ==
  IF StartsFetch(sel, ep, en, loaded)
  THEN /\ Len(inflight) < cfg.pending
       /\ inflight' = Append(inflight, <<sel, ep>>)
       /\ loading' = TRUE
       /\ error' = FALSE
  ELSE UNCHANGED <<inflight, loading, error>>

\* prop enabled changes: loadDanmaku effect, then the admission effect
SetEnabled(cfg) ==
  /\ mounted
  /\ enabled' = ~enabled
  /\ LET e == Env(currentTime, ~enabled, loading, density, danmakuList)
     IN \E perm \in PermSet(cfg, Len(Candidates(S, e))) :
          LET s2 == AdmissionEffect(S, e, perm)
          IN Commit(s2, cfg, TickOp(S, e, s2))
  /\ LoadDanmaku(cfg, selectedAnime, ActualEpisode(manualEpisode, currentEpisode),
                 ~enabled, danmakuLoaded)
  /\ UNCHANGED <<mounted, currentTime, density, maxTracksState, sizeVars,
                 selectedAnime, danmakuLoaded, danmakuList, listUnit, unitVars>>

\* prop density changes: the admission effect, then the density effect
SetDensity(cfg) ==
  \E d \in cfg.densities :
    /\ mounted
    /\ d # density
    /\ density' = d
    /\ LET e == Env(currentTime, enabled, loading, d, danmakuList)
       IN \E perm \in PermSet(cfg, Len(Candidates(S, e))) :
            LET s2 == AdmissionEffect(S, e, perm)
            IN Commit([s2 EXCEPT !.lastDanmakuTime = 0], cfg, TickOp(S, e, s2))
    /\ UNCHANGED <<mounted, currentTime, enabled, maxTracksState, sizeVars, fetchVars>>

\* maxTracksState changes: a new TrackManager is built, then setMaxTracks
SetMaxTracks(cfg) ==
  \E n \in cfg.maxTracks :
    /\ mounted
    /\ n # maxTracksState
    /\ maxTracksState' = n
    /\ Commit(SetMaxTracksTM(NewTrackManager(S, HeightOr400(containerHeight), n), n),
              cfg, [NoOp EXCEPT !.op = "maxTracks"])
    /\ UNCHANGED <<mounted, currentTime, enabled, density, sizeVars, fetchVars>>

\* the container is resized; the TrackManager learns of it in the next frame
Resize(cfg) ==
  \E h \in cfg.heights, w \in cfg.widths :
    /\ mounted
    /\ <<h, w>> # <<containerHeight, containerWidth>>
    /\ containerHeight' = h
    /\ containerWidth' = w
    /\ tick' = IF cfg.ghost THEN [NoOp EXCEPT !.op = "resize"] ELSE tick
    /\ UNCHANGED <<mounted, propVars, fetchVars, displayed, active, inst,
                   tracks, tmMaxTracks, tmHeight, pool, nextElem, styled, topDanmakus,
                   bottomDanmakus, topTrackIndex, bottomTrackIndex,
                   lastDanmakuTime, lastCurrentTime, held, gets, rels, admits>>

\* variant: the instances are deactivated and their elements are not
\* handed back to the pool
ReleaseAllNoPool(s, m) ==
  [s EXCEPT !.inst = [id \in DOMAIN s.inst |->
                        IF \E i \in 1..Len(m) : m[i][2] = id
                        THEN [s.inst[id] EXCEPT !.isActive = FALSE]
                        ELSE s.inst[id]]]

\* release every instance of the Map without touching the lanes
RECURSIVE ReleaseAll(_, _)
ReleaseAll(s, m) ==
  IF m = <<>> THEN s
  ELSE LET id == Head(m)[2]
       IN ReleaseAll(PoolRelease([s EXCEPT !.inst[id].isActive = FALSE],
                                 s.inst[id].elem), Tail(m))

\* the videoTitle effect
ResetForTitle(s) ==
  LET s1 == ReleaseAll([s EXCEPT !.displayed = {}], s.active)
  IN [s1 EXCEPT !.active = <<>>, !.topDanmakus = <<>>, !.bottomDanmakus = <<>>]

\* prop videoTitle changes: the reset effect; its setDanmakuList([]) renders
\* again and the admission effect runs on the empty list
ChangeTitle(cfg) ==
  /\ mounted
  /\ danmakuLoaded' = FALSE
  /\ danmakuList' = <<>>
  /\ listUnit' = NoUnit
  /\ error' = FALSE
  /\ selectedAnime' = 0
  /\ LET e == Env(currentTime, enabled, loading, density, <<>>)
         s1 == ResetForTitle(S)
         s2 == AdmissionEffect(s1, e, <<>>)
     IN Commit(s2, cfg, [NoOp EXCEPT !.op = "title"])
  /\ UNCHANGED <<mounted, propVars, sizeVars, loading, inflight, unitVars>>

\* the episode effect (currentEpisode set, no manual episode)
ResetForEpisode(s) ==
  [s EXCEPT !.displayed = {}, !.lastDanmakuTime = 0, !.lastCurrentTime = 0]

\* window.__setDanmakuSource(anime): the loadDanmaku effect starts a fetch,
\* the episode effect resets the timers unless an episode was chosen by
\* hand, the admission effect runs on []
SetSource(cfg) ==
  \E a \in cfg.sources :
    /\ mounted
    /\ cfg.reselect \/ selectedAnime = 0
    /\ selectedAnime' = a
    /\ danmakuLoaded' = FALSE
    /\ danmakuList' = <<>>
    /\ listUnit' = NoUnit
    /\ LET e == Env(currentTime, enabled, loading, density, <<>>)
           s0 == [S EXCEPT !.displayed = {}]
           s1 == IF currentEpisode # 0 /\ manualEpisode = Null
                 THEN ResetForEpisode(s0) ELSE s0
           s2 == AdmissionEffect(s1, e, <<>>)
       IN Commit(s2, cfg, [NoOp EXCEPT !.op = "source"])
    /\ LoadDanmaku(cfg, a, ActualEpisode(manualEpisode, currentEpisode),
                   enabled, FALSE)
    /\ UNCHANGED <<mounted, propVars, sizeVars, unitVars>>

\* window.__setDanmakuEpisode(n): the handler clears the list, the dedup set
\* and the timers; the loadDanmaku effect runs if actualEpisode changed; the
\* admission effect runs on []
SetManualEpisode(cfg) ==
  \E n \in cfg.manual :
    /\ mounted
    /\ manualEpisode' = n
    /\ danmakuLoaded' = FALSE
    /\ danmakuList' = <<>>
    /\ listUnit' = NoUnit
    /\ LET e == Env(currentTime, enabled, loading, density, <<>>)
           s2 == AdmissionEffect(ResetForEpisode(S), e, <<>>)
       IN Commit(s2, cfg, [NoOp EXCEPT !.op = "manual", !.d = n])
    /\ IF ActualEpisode(n, currentEpisode) # ActualEpisode(manualEpisode, currentEpisode)
       THEN LoadDanmaku(cfg, selectedAnime, ActualEpisode(n, currentEpisode),
                        enabled, FALSE)
       ELSE UNCHANGED <<inflight, loading, error>>
    /\ UNCHANGED <<mounted, propVars, sizeVars, selectedAnime, currentEpisode>>

\* prop currentEpisode changes: the loadDanmaku effect runs if actualEpisode
\* changed, then the episode effect resets unless an episode was chosen by
\* hand, and if it did the admission effect runs on []
SetCurrentEpisode(cfg) ==
  \E c \in cfg.episodes :
    /\ mounted
    /\ c # currentEpisode
    /\ currentEpisode' = c
    /\ IF ActualEpisode(manualEpisode, c) # ActualEpisode(manualEpisode, currentEpisode)
       THEN LoadDanmaku(cfg, selectedAnime, ActualEpisode(manualEpisode, c),
                        enabled, danmakuLoaded)
       ELSE UNCHANGED <<inflight, loading, error>>
    /\ IF selectedAnime # 0 /\ c # 0 /\ manualEpisode = Null
       THEN /\ danmakuLoaded' = FALSE
            /\ danmakuList' = <<>>
            /\ listUnit' = NoUnit
            /\ LET e == Env(currentTime, enabled, loading, density, <<>>)
                   s2 == AdmissionEffect(ResetForEpisode(S), e, <<>>)
               IN Commit(s2, cfg, [NoOp EXCEPT !.op = "episode"])
       ELSE /\ UNCHANGED <<danmakuLoaded, danmakuList, listUnit>>
            /\ Commit(S, cfg, [NoOp EXCEPT !.op = "episode"])
    /\ UNCHANGED <<mounted, propVars, sizeVars, selectedAnime, manualEpisode>>

\* getDanmakuBySelectedAnime resolves for one of the pending calls:
\* setDanmakuList(data), loaded, and setLoading(false); the admission effect
\* runs on the new list
FetchDone(cfg) ==
  \E k \in 1..Len(inflight) : \E list \in cfg.lists :
    /\ mounted
    /\ inflight[k][2] \in 1..EpisodeCount
    /\ inflight' = [i \in 1..(Len(inflight) - 1) |->
                      IF i < k THEN inflight[i] ELSE inflight[i + 1]]
    /\ danmakuList' = list
    /\ listUnit' = inflight[k]
    /\ danmakuLoaded' = TRUE
    /\ loading' = FALSE
    /\ LET e == Env(currentTime, enabled, FALSE, density, list)
       IN \E perm \in PermSet(cfg, Len(Candidates(S, e))) :
            LET s2 == AdmissionEffect(S, e, perm)
            IN Commit(s2, cfg, TickOp(S, e, s2))
    /\ UNCHANGED <<mounted, propVars, sizeVars, selectedAnime, error, unitVars>>

\* getDanmakuBySelectedAnime rejects (episode out of range): setError,
\* setLoading(false); the admission effect runs if loading changed
FetchFail(cfg) ==
  \E k \in 1..Len(inflight) :
    /\ mounted
    /\ inflight[k][2] \notin 1..EpisodeCount
    /\ inflight' = [i \in 1..(Len(inflight) - 1) |->
                      IF i < k THEN inflight[i] ELSE inflight[i + 1]]
    /\ error' = TRUE
    /\ loading' = FALSE
    /\ LET e == Env(currentTime, enabled, FALSE, density, danmakuList)
       IN IF loading
          THEN \E perm \in PermSet(cfg, Len(Candidates(S, e))) :
                 LET s2 == AdmissionEffect(S, e, perm)
                 IN Commit(s2, cfg, [TickOp(S, e, s2) EXCEPT !.op = "fail"])
          ELSE Commit(S, cfg, [NoOp EXCEPT !.op = "fail"])
    /\ UNCHANGED <<mounted, propVars, sizeVars, selectedAnime, danmakuLoaded,
                   danmakuList, listUnit, unitVars>>

\* the 3 s timer of the error notice
DismissError(cfg) ==
  /\ mounted
  /\ error
  /\ error' = FALSE
  /\ tick' = IF cfg.ghost THEN [NoOp EXCEPT !.op = "dismiss"] ELSE tick
  /\ UNCHANGED <<mounted, propVars, sizeVars, selectedAnime, danmakuLoaded,
                 loading, inflight, danmakuList, listUnit, unitVars, displayed,
                 active, inst, tracks, tmMaxTracks, tmHeight, pool, nextElem, styled,
                 topDanmakus, bottomDanmakus, topTrackIndex, bottomTrackIndex,
                 lastDanmakuTime, lastCurrentTime, held, gets, rels, admits>>

\* the teardown effect
Teardown(s) ==
  PoolClear([ReleaseAll(s, s.active) EXCEPT !.active = <<>>])

Unmount(cfg) ==
  /\ mounted
  /\ mounted' = FALSE
  /\ Commit(Teardown(S), cfg, [NoOp EXCEPT !.op = "unmount"])
  /\ UNCHANGED <<propVars, sizeVars, fetchVars>>

(***************************************************************************)
(* Specifications                                                          *)
(***************************************************************************)
\* the scheduler of one title: clock, frames, enable switch, source and title
Init == InitWith(CfgMain)
Next ==
  \/ SetCurrentTime(CfgMain)
  \/ AdvanceWall(CfgMain)
  \/ AnimationFrame(CfgMain)
  \/ SetEnabled(CfgMain)
  \/ ChangeTitle(CfgMain)
  \/ SetSource(CfgMain)
  \/ FetchDone(CfgMain)
  \/ Unmount(CfgMain)
Spec == Init /\ [][Next]_vars

\* DanmakuPool driven directly by a caller that holds what get() returned
\* and releases only what it holds
PoolFills == {0, maxPoolSize - 1, maxPoolSize}
PoolVars == <<pool, nextElem, styled, held>>
OtherVars ==
  <<mounted, propVars, sizeVars, fetchVars, displayed, active, inst, tracks,
    tmMaxTracks, tmHeight, topDanmakus, bottomDanmakus, topTrackIndex,
    bottomTrackIndex, lastDanmakuTime, lastCurrentTime, gets, rels, admits, tick>>

InitPool ==
  \E n \in PoolFills : \E k \in 0..MaxHeld :
    InitFrom(CfgMain, <<>>, [i \in 1..n |-> i], (n + 1)..(n + k))

CallGet ==
  /\ Cardinality(held) <= MaxHeld
  /\ nextElem <= maxPoolSize + MaxHeld + 1
  /\ held' = held \cup {PoolGetElem(S)}
  /\ pool' = PoolGet(S).pool
  /\ nextElem' = PoolGet(S).nextElem
  /\ styled' = styled \cup {PoolGetElem(S)}
  /\ UNCHANGED OtherVars

CallRelease ==
  \E h \in held :
    /\ held' = held \ {h}
    /\ pool' = PoolRelease(S, h).pool
    /\ styled' = PoolRelease(S, h).styled
    /\ UNCHANGED <<nextElem, OtherVars>>

NextPool == CallGet \/ CallRelease
SpecPool == InitPool /\ [][NextPool]_vars

\* the scheduler with its event list loaded, the pool's calls counted
InitCount == InitFrom(CfgCount, ListCount, <<>>, {})
NextCount ==
  \/ SetCurrentTime(CfgCount)
  \/ AdvanceWall(CfgCount)
  \/ AnimationFrame(CfgCount)
  \/ SetEnabled(CfgCount)
  \/ ChangeTitle(CfgCount)
  \/ Unmount(CfgCount)
SpecCount == InitCount /\ [][NextCount]_vars

\* the lanes: scroll items admitted while the container height and the
\* maxTracks setting change
InitLanes == InitFrom(CfgLanes, ListLanes, <<>>, {})
NextLanes ==
  \/ SetCurrentTime(CfgLanes)
  \/ AdvanceWall(CfgLanes)
  \/ AnimationFrame(CfgLanes)
  \/ SetMaxTracks(CfgLanes)
  \/ Resize(CfgLanes)
SpecLanes == InitLanes /\ [][NextLanes]_vars

\* many items due in one second while the density setting changes, within
\* one wall-clock instant
InitDense == InitFrom(CfgDense, ListDense, <<>>, {})
NextDense ==
  \/ SetCurrentTime(CfgDense)
  \/ AnimationFrame(CfgDense)
  \/ SetDensity(CfgDense)
SpecDense == InitDense /\ [][NextDense]_vars

\* seeks over a list of one event at density 50
InitIdem == InitFrom(CfgIdem, ListIdem, <<>>, {})
NextIdem ==
  \/ SetCurrentTime(CfgIdem)
  \/ AdvanceWall(CfgIdem)
  \/ AnimationFrame(CfgIdem)
  \/ SetEnabled(CfgIdem)
SpecIdem == InitIdem /\ [][NextIdem]_vars

\* playback of a list of one event: the clock advances from 0 in steps of
\* one second
InitPlay == \E d \in PlayDueTimes : InitFrom(CfgPlay, ListPlay(d), <<>>, {})
NextPlay ==
  \/ SetCurrentTime(CfgPlay)
  \/ AdvanceWall(CfgPlay)
  \/ AnimationFrame(CfgPlay)
SpecPlay == InitPlay /\ [][NextPlay]_vars

\* the content unit changes (title, source, inferred and manual episode)
\* while fetches are pending
InitFetch == InitWith(CfgFetch)
NextFetch ==
  \/ SetCurrentTime(CfgFetch)
  \/ AnimationFrame(CfgFetch)
  \/ ChangeTitle(CfgFetch)
  \/ SetSource(CfgFetch)
  \/ SetManualEpisode(CfgFetch)
  \/ SetCurrentEpisode(CfgFetch)
  \/ FetchDone(CfgFetch)
  \/ FetchFail(CfgFetch)
  \/ DismissError(CfgFetch)
  \/ Unmount(CfgFetch)
SpecFetch == InitFetch /\ [][NextFetch]_vars

\* one content unit played forward: the clock never goes back, instances
\* expire, and the density setting changes
InitForward == InitFrom(CfgForward, ListForward, <<>>, {})
PlayForward == SetCurrentTime(CfgForward) /\ currentTime' >= currentTime
NextForward ==
  \/ PlayForward
  \/ AdvanceWall(CfgForward)
  \/ AnimationFrame(CfgForward)
  \/ SetDensity(CfgForward)
SpecForward == InitForward /\ [][NextForward]_vars

\* seeks forward and backward over the seconds of one content unit while
\* instances expire and the density is switched off and on
InitSeek == InitFrom(CfgSeek, ListSeek, <<>>, {})
NextSeek ==
  \/ SetCurrentTime(CfgSeek)
  \/ AdvanceWall(CfgSeek)
  \/ AnimationFrame(CfgSeek)
  \/ SetDensity(CfgSeek)
SpecSeek == InitSeek /\ [][NextSeek]_vars

\* top and bottom items admitted again and again by seeks within one
\* second, in a container without lanes
InitSlots == InitFrom(CfgSlots, ListSlots, <<>>, {})
NextSlots ==
  \/ SetCurrentTime(CfgSlots)
  \/ AdvanceWall(CfgSlots)
  \/ AnimationFrame(CfgSlots)
SpecSlots == InitSlots /\ [][NextSlots]_vars

\* one scroll item on screen while the clock moves, stalls, and a source
\* is selected again (the list is loading)
InitStyle == InitFrom(CfgStyle, ListUnit, <<>>, {})
NextStyle ==
  \/ SetCurrentTime(CfgStyle)
  \/ AdvanceWall(CfgStyle)
  \/ AnimationFrame(CfgStyle)
  \/ SetSource(CfgStyle)
  \/ FetchDone(CfgStyle)
SpecStyle == InitStyle /\ [][NextStyle]_vars

(***************************************************************************)
(* Properties                                                              *)
(***************************************************************************)
ActiveObjs == {id \in DOMAIN inst : inst[id].isActive}
InMap == {active[i][2] : i \in 1..Len(active)}

\* C1: at most one Active instance exists for any event key (time, text),
\* in every reachable state: two instance objects that are both active never
\* carry the same key.
C1_OneActivePerKey ==
  \A i, j \in ActiveObjs : inst[i].key = inst[j].key => i = j

\* an Active instance whose key has been taken out of the Dedup Set again
\* (backward seek into its second) while its item is in the event list
C1_Witness ==
  /\ enabled /\ ~loading
  /\ \E id \in ActiveObjs :
       /\ inst[id].key \notin displayed
       /\ \E n \in 1..Len(danmakuList) : KeyOf(danmakuList[n]) = inst[id].key
       /\ FloorSec(inst[id].key[1]) = FloorSec(currentTime)

\* the Active instances that own element h; the Pool slots that hold it
Owners(h) == {id \in ActiveObjs : inst[id].elem = h}
PoolSlots(h) == {i \in 1..Len(pool) : pool[i] = h}

\* C7: handle ownership is exclusive.  Every element made so far is owned by
\* at most one Active instance, is never both owned and in the Pool, is never
\* twice in the Pool, and (while mounted; the Pool is below capacity) is
\* either owned by an instance of the active map or in the Pool.
C7_ExclusiveOwnership ==
  \A h \in 1..(nextElem - 1) :
    /\ Cardinality(Owners(h)) + Cardinality(PoolSlots(h)) <= 1
    /\ mounted => \/ PoolSlots(h) # {}
                  \/ \E id \in InMap : inst[id].isActive /\ inst[id].elem = h

\* two elements were made, one is back in the Pool, the other is owned
C7_Witness ==
  /\ nextElem = 3 /\ Len(pool) = 1 /\ Len(active) = 1
  /\ inst[active[1][2]].elem \notin Range(pool)

\* the positions below the last observed clock value
BackwardPositions == {p \in CfgMain.clocks : p < lastCurrentTime}

\* C9: when the admission effect sees the playback clock below its last
\* observed value, every Active instance whose recorded due time (startTime,
\* the clock position at its admission) is after the new position is
\* force-expired before anything is admitted: after the repair it is not in
\* the active map, not in a lane, not active, and its element is in the Pool;
\* and after the whole tick no instance of the active map is due after the
\* new position.
C9_ForceExpire ==
  mounted =>
    \A p \in BackwardPositions :
      LET e == Env(p, TRUE, FALSE, density, danmakuList)
          r == SeekRepair([S EXCEPT !.lastCurrentTime = p], e)
      IN /\ \A i \in 1..Len(active) :
              LET id == active[i][2]
              IN inst[id].startTime > p =>
                   /\ ~MapHas(r.active, active[i][1])
                   /\ ~r.inst[id].isActive
                   /\ id \notin UNION {Range(r.tracks[l]) : l \in DOMAIN r.tracks}
                   /\ inst[id].elem \in Range(r.pool)
         /\ \A perm \in Perms(Len(Candidates(S, e))) :
              LET a == AdmissionEffect(S, e, perm)
              IN \A i \in 1..Len(a.active) : a.inst[a.active[i][2]].startTime <= p

\* the clock can go back below the due time of an Active scroll instance
\* that sits in a lane
C9_Witness ==
  /\ mounted /\ enabled /\ ~loading
  /\ \E p \in BackwardPositions : \E i \in 1..Len(active) :
       /\ inst[active[i][2]].startTime > p
       /\ inst[active[i][2]].type = 1
       /\ \E l \in DOMAIN tracks : active[i][2] \in Range(tracks[l])

\* C5: the Pool's free list never holds more than maxPoolSize (100) elements
\* after any sequence of get and release calls; a release on a full pool
\* leaves the free list as it is (the element is discarded), a release below
\* capacity appends the element.
C5_PoolCapacity ==
  /\ Len(pool) <= maxPoolSize
  /\ \A h \in held :
       LET r == PoolRelease(S, h)
       IN /\ Len(r.pool) <= maxPoolSize
          /\ Len(pool) = maxPoolSize => r.pool = pool
          /\ Len(pool) < maxPoolSize => r.pool = Append(pool, h)

\* the pool is full and an element has been discarded by a release: more
\* elements were made than the pool and its caller hold
C5_Witness ==
  /\ Len(pool) = maxPoolSize
  /\ nextElem - 1 > maxPoolSize + Cardinality(held)

\* C6 as stated: (elements in the Pool) + (Active instances) is at most
\* (admissions so far) minus (releases so far).
C6_AsStated == Len(pool) + Len(active) <= admits - rels

\* C6, amended: (elements in the Pool) + (instances in the active map) is at
\* most the number of elements made, which is at most the number of get()
\* calls so far; a release moves an element from an instance to the Pool
\* and is not subtracted.
C6_LiveHandles ==
  /\ Len(pool) + Len(active) <= nextElem - 1
  /\ nextElem - 1 <= gets

\* after a release: an element is back in the Pool while another instance
\* is in the active map
C6_Witness == rels >= 1 /\ Len(pool) >= 1 /\ Len(active) >= 1

\* x of an instance from its elapsed time; the Active scroll instances that
\* have a lane and are within their duration
SpanX(i) == i.startX - (i.speed * i.elapsed) \div 2
InFlightScroll ==
  {id \in ActiveObjs : /\ inst[id].type = 1 /\ inst[id].track >= 0
                       /\ inst[id].elapsed <= inst[id].duration}

\* C2: any two distinct Active scroll instances that carry the same lane
\* index have disjoint horizontal spans [x, x + width), x computed from the
\* wall-clock time elapsed since their start, after any sequence of ticks,
\* frames, seeks, container-height changes and maxTracks changes.  (An
\* instance past its duration is wholly left of the container and is left
\* out of the comparison.)
C2_LaneNonOverlap ==
  \A i, j \in InFlightScroll :
    (i # j /\ inst[i].track = inst[j].track) =>
      \/ SpanX(inst[i]) + inst[i].width <= SpanX(inst[j])
      \/ SpanX(inst[j]) + inst[j].width <= SpanX(inst[i])

\* two in-flight scroll instances carry the same lane index
C2_Witness ==
  \E i, j \in InFlightScroll : i # j /\ inst[i].track = inst[j].track

\* C3: in every reachable state the number of Active scroll instances is
\* at most max(5, floor(density / 100 * 50)) for the current density, also
\* after backward-seek ticks and after a change of the density.
C3_CapacityBound == ScrollCount(S) <= MaxConcurrent(density)

\* the density has been lowered while scroll instances are active
C3_Witness ==
  /\ density = 10 /\ ScrollCount(S) >= 1
  /\ \E i \in 1..Len(active) : inst[active[i][2]].type = 1

\* C4: in a single admission tick (ordinary or backward seek) the number of
\* instances created is at most min(remainingCapacity,
\* ceil(dueCount * density / 100), 3), hence never more than 3.
C4_PerTickBound ==
  tick.op = "tick" =>
    /\ tick.created <= PerTickCap
    /\ tick.created <=
         Max2(0, Min2(tick.remaining,
                      Min2(CeilDiv(tick.due * tick.d, 100), PerTickCap)))

\* a tick with six due candidates at density 10 has admitted one
C4_Witness ==
  tick.op = "tick" /\ tick.due = 6 /\ tick.d = 10 /\ tick.created = 1

\* C8: seek idempotence.  From any reachable state, running the admission
\* tick for a seek to position p twice in succession, with no frame between
\* the two runs, leaves the same set of Active instance keys as running it
\* once.
C8_SeekIdempotent ==
  (mounted /\ enabled /\ ~loading) =>
    \A p \in CfgIdem.clocks :
      LET e == Env(p, enabled, loading, density, danmakuList)
      IN \A perm1 \in Perms(Len(Candidates(S, e))) :
           LET once == AdmissionEffect(S, e, perm1)
           IN \A perm2 \in Perms(Len(Candidates(once, e))) :
                MapKeys(AdmissionEffect(once, e, perm2).active)
                  = MapKeys(once.active)

\* the clock has run past the event without admitting it, so that a seek
\* back before the event is possible
C8_Witness ==
  /\ mounted /\ enabled /\ ~loading
  /\ active = <<>>
  /\ \E n \in 1..Len(danmakuList) : danmakuList[n].time < lastCurrentTime

\* C10: with a single event due at d in the list, density 100, the overlay
\* enabled, a free lane and the clock advancing from 0 in 1-second steps
\* past d, the event becomes Active exactly once, at a tick whose clock is
\* >= d, and is expired and removed once its wall-clock elapsed time exceeds
\* its duration: never two admissions, never an instance started before d,
\* an admission by the time the clock has passed d, and after a frame no
\* instance in the active map that is past its duration.
C10_SingleEvent ==
  /\ admits <= 1
  /\ \A id \in ActiveObjs : inst[id].startTime >= inst[id].key[1]
  /\ (currentTime = PlayMaxClock /\ danmakuList[1].time < PlayMaxClock)
       => admits = 1
  /\ tick.op = "frame" =>
       \A id \in InMap : inst[id].elapsed <= inst[id].duration

\* the event due at second 1 has been admitted once, has expired and has
\* been removed by a frame
C10_Witness ==
  /\ danmakuList[1].time = 2
  /\ admits = 1 /\ rels = 1 /\ active = <<>>
  /\ tick.op = "frame"

\* an instance that the frame loop retired: its key is in the dedup set and
\* not in the Map
Expired(k) == k \in displayed /\ ~MapHas(active, k)

\* C11: a frame step leaves the dedup set as it is, and when one content
\* unit is played with a clock that never goes back no key leaves the dedup
\* set and every instance created adds a new key to it, so that no key is
\* admitted twice, at every density
C11_AdmitOnce ==
  [][/\ tick'.op = "frame" => displayed' = displayed
     /\ displayed \subseteq displayed'
     /\ admits' - admits = Cardinality(displayed' \ displayed)]_vars

\* an admission tick passed its gates, selected candidates and created
\* nothing, while an item whose instance has expired is in its time window
C11_Witness ==
  /\ tick.op = "tick" /\ tick.created = 0 /\ tick.due > 0
  /\ lastDanmakuTime = currentTime
  /\ \E i \in 1..Len(danmakuList) :
       /\ Expired(KeyOf(danmakuList[i]))
       /\ FloorSec(danmakuList[i].time) >= FloorSec(currentTime)
       /\ FloorSec(danmakuList[i].time) < FloorSec(currentTime) + TimeWindow(density)
\* the admission effect of a step that sets the clock: the view of the render
\* it runs after, and whether it reaches its creation loop with every
\* candidate selected
TickEnv == Env(currentTime', enabled, loading, density, danmakuList)
TickSelectsAll ==
  /\ currentTime' # currentTime
  /\ ~GatedOut(S, TickEnv)
  /\ Len(Candidates(S, TickEnv)) <= TargetCount(S, TickEnv)

\* C12: after an admission tick that selected a scroll candidate, the
\* candidate's key is in the dedup set, whether a lane was found for it (an
\* instance was created) or not (the candidate was dropped)
C12_DroppedKeyRecorded ==
  [][TickSelectsAll =>
       \A i \in 1..Len(Candidates(S, TickEnv)) :
         Candidates(S, TickEnv)[i].type = 1 =>
           KeyOf(Candidates(S, TickEnv)[i]) \in displayed']_vars

\* the tick at the current clock position created an instance and left a
\* scroll item of the same second without one and without its key recorded
C12_Witness ==
  /\ lastDanmakuTime = currentTime
  /\ \E i \in 1..Len(active) : inst[active[i][2]].startTime = currentTime
  /\ \E i \in 1..Len(danmakuList) :
       /\ danmakuList[i].type = 1
       /\ FloorSec(danmakuList[i].time) = FloorSec(currentTime)
       /\ KeyOf(danmakuList[i]) \notin displayed
       /\ ~MapHas(active, KeyOf(danmakuList[i]))
\* the admission effect of a step that sets the clock gets as far as
\* scrollCount: it is enabled, not loading and not stopped by the rate gate
TickCounts ==
  /\ currentTime' # currentTime
  /\ enabled /\ ~loading
  /\ \/ IsSeekingBackward(S, TickEnv)
     \/ ~RateLimited(currentTime' - lastDanmakuTime, density)

\* C13: when an admission tick counts the active scroll instances, none of
\* the instances it counts is past its duration on the wall clock and none
\* is force-expired by the backward-seek repair of the same tick
C13_CountAfterCleanup ==
  [][TickCounts =>
       \A i \in 1..Len(active) :
         LET o == inst[active[i][2]]
         IN (o.type = 1 /\ o.isActive) =>
              /\ o.elapsed <= o.duration
              /\ ~(IsSeekingBackward(S, TickEnv) /\ o.startTime > currentTime')]_vars

\* a scroll instance past its duration is still in the Map and active while
\* admission ticks can run: no frame has retired it yet
C13_Witness ==
  /\ mounted /\ enabled /\ ~loading
  /\ \E i \in 1..Len(active) :
       LET o == inst[active[i][2]]
       IN o.type = 1 /\ o.isActive /\ o.elapsed > o.duration
\* the content unit selected now: what loadDanmaku would fetch
CurrentUnit == <<selectedAnime, ActualEpisode(manualEpisode, currentEpisode)>>

\* C14: the result of a fetch that a content-unit change superseded is
\* ignored: whenever the event list is populated or marked as loaded, it is
\* the list fetched for the unit selected now
C14_LateResultIgnored ==
  (danmakuList # <<>> \/ danmakuLoaded) => listUnit = CurrentUnit

\* a fetch is pending for a unit that is not selected any more
C14_Witness ==
  \E k \in 1..Len(inflight) : inflight[k] # CurrentUnit
\* C15: after a content-unit change (title, source, manual episode, or the
\* inferred episode of a selected source without a manual episode) the
\* event list and the dedup set are empty, no instance is active and every
\* element is back in the pool, no lane has an occupant, and both admission
\* timers are 0
C15_FullReset ==
  (\/ tick.op \in {"title", "source", "manual"}
   \/ tick.op = "episode" /\ manualEpisode = Null /\ selectedAnime # 0)
  => /\ danmakuList = <<>>
     /\ displayed = {}
     /\ active = <<>>
     /\ Len(pool) = nextElem - 1
     /\ \A l \in DOMAIN tracks : tracks[l] = <<>>
     /\ lastDanmakuTime = 0
     /\ lastCurrentTime = 0

\* a source was selected while an instance was active, and the instance is
\* still active and in its lane
C15_Witness ==
  /\ tick.op = "source"
  /\ \E i \in 1..Len(active) :
       /\ inst[active[i][2]].isActive
       /\ \E l \in DOMAIN tracks : active[i][2] \in Range(tracks[l])
\* C16: a content-unit change makes no element and takes none out of the
\* pool, and the title reset adds the element of every instance it releases
\* (up to the capacity); an element is made only when the pool is empty, so
\* retained elements are used first; the teardown leaves the pool and the
\* Map empty and the component unmounted, with no frame callback to come
C16_PoolKeptAndCleared ==
  [][/\ tick'.op \in {"title", "source", "manual", "episode"} =>
          /\ nextElem' = nextElem
          /\ Len(pool') >= Len(pool)
     /\ tick'.op = "title" =>
          Len(pool') = Min2(maxPoolSize, Len(pool) + Len(active))
     /\ nextElem' > nextElem => pool = <<>>
     /\ tick'.op = "unmount" =>
          pool' = <<>> /\ active' = <<>> /\ ~mounted']_vars

\* the title reset has just released an instance: its element is in the pool
C16_Witness ==
  /\ tick.op = "title"
  /\ pool # <<>>
  /\ active = <<>>
  /\ \E id \in DOMAIN inst : ~inst[id].isActive
\* C17: while the overlay is disabled a frame hides every active instance
\* of the Map, and a frame or an admission tick leaves the Map, the dedup
\* set, the event list and the pool as they are: nothing is created,
\* nothing is released
C17_DisabledKeepsState ==
  [][(~enabled /\ ~enabled' /\ tick'.op \in {"frame", "tick"}) =>
       /\ active' = active
       /\ displayed' = displayed
       /\ danmakuList' = danmakuList
       /\ pool' = pool
       /\ gets' = gets /\ rels' = rels /\ admits' = admits
       /\ tick'.op = "frame" =>
            \A i \in 1..Len(active') :
              inst'[active'[i][2]].isActive => inst'[active'[i][2]].hidden]_vars

\* a frame has run while the overlay is disabled, and an instance past its
\* duration is still active, in the Map, and hidden
C17_Witness ==
  /\ ~enabled /\ tick.op = "frame"
  /\ \E i \in 1..Len(active) :
       LET o == inst[active[i][2]]
       IN o.isActive /\ o.hidden /\ o.elapsed > o.duration
\* the step that enables the overlay starts no fetch for a loaded list, and
\* every key that was in the dedup set and is in the Map afterwards has the
\* instance it had before
ReenableKeeps ==
  /\ danmakuLoaded => inflight' = inflight
  /\ \A i \in 1..Len(active') :
       active'[i][1] \in displayed =>
         /\ MapHas(active, active'[i][1])
         /\ inst'[active'[i][2]] = inst[MapGet(active, active'[i][1])]

\* C18 as stated: enabling the overlay again starts no fetch when the list
\* is loaded and creates no instance for a key of the dedup set
C18_AsStated == [][(~enabled /\ enabled') => ReenableKeeps]_vars

\* C18, amended: the same, when the clock is not behind the last position an
\* admission tick observed (no backward seek happened while disabled)
C18_ReenableNoSeek ==
  [][(~enabled /\ enabled' /\ currentTime >= lastCurrentTime) => ReenableKeeps]_vars

\* the overlay has just been enabled again with the list loaded, an instance
\* admitted before still active and an expired key in the dedup set
C18_Witness ==
  /\ enabled /\ danmakuLoaded /\ inflight = <<>>
  /\ lastCurrentTime = currentTime /\ lastDanmakuTime < currentTime
  /\ \E i \in 1..Len(active) : inst[active[i][2]].startTime < currentTime
  /\ \E k \in displayed : ~MapHas(active, k)
\* C19: once a manual episode is set, a fetch that starts is for the manual
\* episode, and a change of the inferred episode (prop currentEpisode)
\* leaves the event list, its loaded mark and the dedup set as they are and
\* starts no fetch
C19_ManualWins ==
  [][/\ (manualEpisode' # Null /\ Len(inflight') > Len(inflight)) =>
          inflight'[Len(inflight')][2] = manualEpisode'
     /\ (manualEpisode # Null /\ currentEpisode' # currentEpisode) =>
          /\ danmakuList' = danmakuList
          /\ danmakuLoaded' = danmakuLoaded
          /\ displayed' = displayed
          /\ inflight' = inflight]_vars

\* a manual episode is set, the inferred episode has just changed to another
\* one, and the list fetched for the manual episode is loaded and shown
C19_Witness ==
  /\ tick.op = "episode"
  /\ manualEpisode # Null /\ manualEpisode # currentEpisode
  /\ danmakuLoaded /\ listUnit = <<selectedAnime, manualEpisode>>
  /\ displayed # {}
\* C20: window.__setDanmakuEpisode(n) with n outside 1..episodeCount of the
\* selected source changes nothing: event list, dedup set, manual episode
\* and admission timers are as before the call
C20_OutOfRangeRejected ==
  [][(tick'.op = "manual" /\ tick'.d \notin 1..EpisodeCount /\ selectedAnime # 0) =>
       /\ danmakuList' = danmakuList
       /\ displayed' = displayed
       /\ manualEpisode' = manualEpisode
       /\ lastDanmakuTime' = lastDanmakuTime
       /\ lastCurrentTime' = lastCurrentTime]_vars

\* an episode number beyond the source's episodes is the manual episode,
\* the fetch for it has failed and the event list is empty
C20_Witness ==
  /\ selectedAnime # 0
  /\ manualEpisode > EpisodeCount
  /\ error /\ inflight = <<>>
  /\ danmakuList = <<>> /\ ~danmakuLoaded
\* C21: when a fetch fails the event list is empty afterwards and nothing
\* is admitted, the error notice is up, and no fetch is issued in its place;
\* the notice's timer clears it; a fetch starts only in a step that changes
\* the source, the episode (manual or inferred) or the enabled flag
C21_FailureNoRetry ==
  [][/\ tick'.op = "fail" =>
          /\ danmakuList' = <<>>
          /\ active' = active
          /\ error'
          /\ Len(inflight') = Len(inflight) - 1
     /\ (error /\ tick'.op = "dismiss") => ~error'
     /\ Len(inflight') > Len(inflight) =>
          \/ tick'.op \in {"source", "manual"}
          \/ currentEpisode' # currentEpisode
          \/ enabled' # enabled]_vars

\* a fetch has failed with nothing else pending: the notice is up, the list
\* is empty and not marked loaded, and a source is still selected
C21_Witness ==
  /\ tick.op = "fail" /\ error /\ inflight = <<>>
  /\ selectedAnime # 0 /\ danmakuList = <<>> /\ ~danmakuLoaded
C23_SeekClearsSecond ==
  [][(currentTime' # currentTime /\ enabled /\ ~loading
        /\ IsSeekingBackward(S, TickEnv)) =>
       LET c == Candidates(S, TickEnv)
           forced == Range(KeysStartedAfter(S, active, currentTime'))
           nowKeys == {KeyOf(c[i]) : i \in 1..Len(c)}
       IN /\ \A k \in nowKeys :
               k \in displayed' =>
                 /\ MapHas(active', k)
                 /\ MapHas(active, k) => k \in forced
          /\ \A k \in nowKeys :
               (TargetCount(S, TickEnv) >= Len(c)
                  /\ (~MapHas(active, k) \/ k \in forced)) =>
                 \/ MapHas(active', k)
                 \/ \E i \in 1..Len(c) :
                      /\ KeyOf(c[i]) = k /\ c[i].type = 1
                      /\ FindAvailableTrack(S', c[i].width, containerWidth) = Null
          /\ \A k \in (displayed \cup displayed') \ nowKeys :
               k \in displayed' <=> (k \in displayed /\ k \notin forced)]_vars

\* after a backward seek into second 1: event a, expired before the seek,
\* is Active again, and the expired event c of second 2 keeps its key
C23_Witness ==
  /\ tick.op = "tick" /\ tick.created = 1 /\ currentTime = 2
  /\ MapHas(active, <<2, "a">>)
  /\ <<4, "c">> \in displayed /\ ~MapHas(active, <<4, "c">>)
\* C24: an enabled frame step retires every Active instance whose
\* wall-clock elapsed time exceeds its duration: after the step it is not in
\* the active map and not in a lane
C24_ExpiredRetired ==
  [][(AnimationFrame(CfgMain) /\ enabled) =>
       \A i \in 1..Len(active) :
         LET o == inst[active[i][2]]
         IN (o.isActive /\ o.elapsed > o.duration) =>
              /\ ~MapHas(active', active[i][1])
              /\ \A l \in DOMAIN tracks' : \A id \in Range(tracks'[l]) :
                   inst'[id].key # active[i][1]]_vars

\* the overlay is enabled and an Active instance is past its duration while
\* the playback position is before the instance's start
C24_Witness ==
  /\ enabled /\ mounted
  /\ \E i \in 1..Len(active) :
       LET o == inst[active[i][2]]
       IN o.isActive /\ o.elapsed > o.duration /\ o.startTime > currentTime
C26_LaneIndices ==
  LET N(h, m) == IF m > 0 THEN Min2(h \div 30, m) ELSE h \div 30
      kept(r, n) ==
        /\ DOMAIN r.tracks = 0..(n - 1)
        /\ \A l \in DOMAIN r.tracks :
             r.tracks[l] = IF l \in DOMAIN tracks THEN tracks[l] ELSE <<>>
        /\ r.inst = inst /\ r.active = active
  IN /\ DOMAIN tracks = 0..(N(tmHeight, tmMaxTracks) - 1)
     /\ \A h \in {0, 29, 30, 60, 95} :
          kept(UpdateContainerHeight(S, h), N(h, tmMaxTracks))
     /\ \A m \in 0..3 :
          kept(SetMaxTracksTM(S, m), N(tmHeight, m))

\* the lanes have shrunk to one: an Active Scroll instance of the removed
\* lane 1 is in no lane, and lane 0 still records its occupant
C26_Witness ==
  /\ DOMAIN tracks = {0} /\ tracks[0] # <<>>
  /\ \E i \in 1..Len(active) :
       inst[active[i][2]].isActive /\ inst[active[i][2]].track = 1
\* C27: an admission tick at position t that is no backward seek admits
\* only events whose dueTime is in [t, t + window), with window =
\* max(1, ceil(100 / density)) seconds, and whose key was not in the Dedup
\* Set; none with dueTime < t
C27_DueWindow ==
  [][(tick'.op = "tick" /\ currentTime' >= lastCurrentTime) =>
       \A k \in MapKeys(active') \ MapKeys(active) :
         /\ k[1] >= currentTime'
         /\ k[1] < currentTime' + 2 * Max2(1, CeilDiv(100, density'))
         /\ k \notin displayed]_vars

\* a forward tick has admitted an event that was due before the tick's
\* position, in the same second
C27_Witness ==
  /\ tick.op = "tick" /\ tick.created >= 1
  /\ \E i \in 1..Len(active) :
       LET o == inst[active[i][2]]
       IN /\ o.isActive /\ o.elapsed = 0 /\ o.startTime = currentTime
          /\ active[i][1][1] < currentTime
          /\ FloorSec(active[i][1][1]) = FloorSec(currentTime)
\* C28: get() on a non-empty pool hands out the last pooled element, the
\* pool shrinks by one and no element is made; on an empty pool it makes a
\* new element; release() leaves the element without style, text and
\* attributes, whether it is pushed to the pool or dropped
C28_GetReusesReleaseResets ==
  [][/\ \A h \in held' \ held :
          IF pool # <<>>
          THEN /\ h = pool[Len(pool)]
               /\ pool' = SubSeq(pool, 1, Len(pool) - 1)
               /\ nextElem' = nextElem
          ELSE /\ h = nextElem /\ pool' = <<>>
               /\ nextElem' = nextElem + 1
     /\ \A h \in held \ held' :
          /\ h \notin styled'
          /\ pool' \in {pool, Append(pool, h)}
     /\ \A i \in 1..Len(pool') : pool'[i] \notin styled']_vars

\* an element that was handed out and used has been released into the
\* pool, and the pool's caller still holds another
C28_Witness ==
  /\ pool # <<>> /\ held # {}
  /\ \E h \in held : pool[Len(pool)] > h
  /\ pool[Len(pool)] \notin styled /\ held \subseteq styled
\* C29: an in-flight Scroll instance whose lane record is gone (the lane
\* count shrank) stays Active in the active map while no seek happens; it
\* is in no lane again for as long as it lives, also when its lane index
\* exists again; the frame after its duration retires it, puts one element
\* per retired instance into the Pool and leaves the records of the other
\* occupants as they were
C29_OrphansRetireNormally ==
  [][LET inLane(tr, id) == \E l \in DOMAIN tr : id \in Range(tr[l])
         keys(in, sq) == [j \in 1..Len(sq) |-> in[sq[j]].key]
         retired == MapKeys(active) \ MapKeys(active')
     IN /\ \A i \in 1..Len(active) :
             LET id == active[i][2]
                 k == active[i][1]
                 o == inst[id]
                 orphan == o.isActive /\ o.type = 1 /\ ~inLane(tracks, id)
             IN /\ (orphan /\ o.elapsed <= o.duration /\ currentTime' = currentTime) =>
                     /\ MapHas(active', k)
                     /\ inst'[MapGet(active', k)].isActive
                /\ (orphan /\ MapHas(active', k)
                      /\ ~(currentTime' # currentTime /\ o.startTime > currentTime')) =>
                     ~inLane(tracks', MapGet(active', k))
                /\ (orphan /\ AnimationFrame(CfgLanes) /\ o.elapsed > o.duration
                      /\ o.startTime <= currentTime) =>
                     ~MapHas(active', k)
        /\ AnimationFrame(CfgLanes) =>
             /\ Len(pool') = Len(pool) + Cardinality(retired)
             /\ \A a, b \in 1..Len(pool') : pool'[a] = pool'[b] => a = b
             /\ \A l \in DOMAIN tracks \cap DOMAIN tracks' :
                  keys(inst', tracks'[l])
                    = SeqFilter(keys(inst, tracks[l]), MapKeys(active'))]_vars

\* an in-flight Scroll instance of lane 1 is in no lane although lane 1
\* exists again, and another instance has been given lane 1 since
C29_Witness ==
  /\ DOMAIN tracks = {0, 1}
  /\ \E i \in 1..Len(active) :
       LET o == inst[active[i][2]]
       IN /\ o.isActive /\ o.type = 1 /\ o.track = 1 /\ o.elapsed <= o.duration
          /\ \A l \in DOMAIN tracks : active[i][2] \notin Range(tracks[l])
  /\ tracks[1] # <<>>
\* C30: the lanes hold Scroll instances only; a tick that creates n Top
\* and m Bottom instances places the j-th of them in slot (counter + j - 1)
\* mod 5 of its own kind and advances the Top counter by n and the Bottom
\* counter by m, mod 5; no other step moves a counter; both stay within
\* 0..4; a Top or Bottom event that is selected and neither in the Dedup
\* Set nor Active is created whatever the lanes
C30_SlotsRoundRobin ==
  [][LET nt == Len(topDanmakus') - Len(topDanmakus)
         nb == Len(bottomDanmakus') - Len(bottomDanmakus)
         c == Candidates(S, TickEnv)
         forced == Range(KeysStartedAfter(S, active, currentTime'))
         eligible(k) == IF IsSeekingBackward(S, TickEnv)
                        THEN ~MapHas(active, k) \/ k \in forced
                        ELSE k \notin displayed /\ ~MapHas(active, k)
     IN /\ topTrackIndex' \in 0..4 /\ bottomTrackIndex' \in 0..4
        /\ \A l \in DOMAIN tracks' : \A id \in Range(tracks'[l]) : inst'[id].type = 1
        /\ tick'.op # "tick" =>
             /\ topTrackIndex' = topTrackIndex
             /\ bottomTrackIndex' = bottomTrackIndex
        /\ tick'.op = "tick" =>
             /\ topTrackIndex' = (topTrackIndex + nt) % 5
             /\ bottomTrackIndex' = (bottomTrackIndex + nb) % 5
             /\ \A j \in 1..nt :
                  LET o == inst'[topDanmakus'[Len(topDanmakus) + j]]
                  IN /\ o.type = 2 /\ o.track = Null
                     /\ o.startY = 10 + ((topTrackIndex + j - 1) % 5) * 35
             /\ \A j \in 1..nb :
                  LET o == inst'[bottomDanmakus'[Len(bottomDanmakus) + j]]
                  IN /\ o.type = 3 /\ o.track = Null
                     /\ o.startY = containerHeight - 10
                                     - ((bottomTrackIndex + j - 1) % 5) * 35 - ElemHeight
             /\ (~GatedOut(S, TickEnv) /\ TargetCount(S, TickEnv) >= Len(c)) =>
                  \A i \in 1..Len(c) :
                    (c[i].type \in {2, 3} /\ eligible(KeyOf(c[i]))) =>
                      MapHas(active', KeyOf(c[i]))]_vars

\* the fifth Top admission has just taken slot 4 and wrapped the Top
\* counter, the Bottom counter stands elsewhere, and there is no lane
C30_Witness ==
  /\ tick.op = "tick" /\ tracks = <<>>
  /\ topTrackIndex = 0 /\ bottomTrackIndex = 3
  /\ \E i \in 1..Len(active) :
       LET o == inst[active[i][2]]
       IN o.isActive /\ o.type = 2 /\ o.elapsed = 0 /\ o.startY = 10 + 4 * 35
\* C31: in an enabled frame, a Scroll instance whose start is not after the
\* playback position is placed on the line from startX to -width at the
\* fraction elapsed / duration of wall-clock time, wherever the playback
\* clock stands: it never moves back, it has left startX once time has
\* passed, and the frame that finds elapsed > duration retires it
C31_WallClockMotion ==
  [][(tick'.op = "frame" /\ enabled) =>
       \A i \in 1..Len(active) :
         LET k == active[i][1]
             o == inst[active[i][2]]
         IN (o.isActive /\ o.type = 1 /\ o.startTime <= currentTime) =>
              IF o.elapsed > o.duration THEN ~MapHas(active', k)
              ELSE /\ MapHas(active', k)
                   /\ LET x2 == inst'[MapGet(active', k)].x
                      IN /\ x2 * o.duration
                              = o.startX * o.duration - (o.startX + o.width) * o.elapsed
                         /\ x2 <= o.x
                         /\ o.elapsed > 0 => x2 < o.startX]_vars

\* a frame has moved a Scroll instance to its end position -width while
\* the playback clock stood at the instance's start
C31_Witness ==
  /\ tick.op = "frame" /\ enabled
  /\ \E i \in 1..Len(active) :
       LET o == inst[active[i][2]]
       IN /\ o.isActive /\ o.type = 1 /\ o.startTime = currentTime
          /\ o.elapsed = o.duration /\ o.x = 0 - o.width
\* C32: an enabled frame leaves an Active instance whose start is after
\* the playback position in the active map, with opacity 0 and with the
\* transform it had
C32_NotYetDueHidden ==
  [][(tick'.op = "frame" /\ enabled) =>
       \A i \in 1..Len(active) :
         LET k == active[i][1]
             o == inst[active[i][2]]
         IN (o.isActive /\ o.startTime > currentTime) =>
              /\ MapHas(active', k)
              /\ inst'[MapGet(active', k)].isActive
              /\ inst'[MapGet(active', k)].hidden
              /\ inst'[MapGet(active', k)].x = o.x]_vars

\* a frame has hidden a Scroll instance that had moved half its way, the
\* playback position being before the instance's start, and has left it
\* where it was although more wall-clock time has passed
C32_Witness ==
  /\ tick.op = "frame" /\ enabled
  /\ \E i \in 1..Len(active) :
       LET o == inst[active[i][2]]
       IN /\ o.isActive /\ o.hidden /\ o.startTime > currentTime
          /\ o.x = 0 /\ o.elapsed = o.duration
\* C33: after an admission tick (enabled, not loading) the last-admission
\* time is at most the playback position, so that the time since the last
\* admission, which the rate gate compares with the display interval, is
\* never negative
C33_LastAdmissionNotAhead ==
  [][(currentTime' # currentTime /\ enabled /\ ~loading) =>
       lastDanmakuTime' <= currentTime']_vars

\* the admission tick of a backward seek has run and the last-admission
\* time is still the later position
C33_Witness ==
  /\ enabled /\ ~loading /\ lastCurrentTime = currentTime
  /\ lastDanmakuTime > currentTime
  /\ RateLimited(currentTime + 2 - lastDanmakuTime, density)
\* C34: under forward playback the last-admission time is the position of
\* the last tick that selected candidates since the density was set: a step
\* at unchanged density leaves it or sets it to the new position; it is
\* set, and instances are created, only at a position at least
\* max(0.5, 100 / density) seconds after it; a density change sets it to 0
C34_AdmissionsSpaced ==
  [][LET since == currentTime' - lastDanmakuTime
         spaced == density > 0 /\ since >= 1 /\ since * density >= 200
     IN /\ density' # density => lastDanmakuTime' = 0
        /\ density' = density =>
             /\ lastDanmakuTime' \in {lastDanmakuTime, currentTime'}
             /\ lastDanmakuTime' # lastDanmakuTime => spaced
             /\ (tick'.op = "tick" /\ tick'.created >= 1) =>
                  spaced /\ lastDanmakuTime' = currentTime']_vars

\* at density 50 a tick at 4.0 s has created an instance while the
\* instance of an earlier tick, 2 s of playback before, is still Active
C34_Witness ==
  /\ tick.op = "tick" /\ tick.created >= 1 /\ density = 50
  /\ currentTime = 8 /\ lastDanmakuTime = 8
  /\ \E i \in 1..Len(active) :
       inst[active[i][2]].isActive /\ inst[active[i][2]].startTime = 4
\* C35: with density = 0 no instance is ever created, on ordinary ticks
\* and on backward-seek ticks alike
C35_ZeroDensityCreatesNone ==
  (tick.op = "tick" /\ tick.d = 0) => tick.created = 0

\* at density 0 a tick has found six due candidates and created none
C35_Witness ==
  /\ tick.op = "tick" /\ tick.d = 0 /\ density = 0
  /\ tick.due = 6 /\ tick.created = 0
\* C36: every Active instance's key is in the Dedup Set, in every reachable
\* state, also after backward seeks and after episode or source changes
C36_ActiveKeysInDedup ==
  \A id \in ActiveObjs : inst[id].key \in displayed

\* two instances admitted by one tick are Active with their keys in the
\* Dedup Set
C36_Witness ==
  /\ enabled /\ ~loading /\ lastDanmakuTime = currentTime
  /\ Cardinality(ActiveObjs) = 2
  /\ \A id \in ActiveObjs :
       inst[id].key \in displayed /\ inst[id].startTime = currentTime
\* C37: Lane Table consistency.  After every step each instance recorded
\* in lane L is a Scroll instance with track = L, recorded in no other lane
\* and only once; after an enabled frame every recorded occupant is Active
\* and in the active map; findAvailableTrack gives what it gives once the
\* occupants that are not Active are taken out, and with every occupant
\* deactivated it gives the lowest lane
C37_LaneTableConsistent ==
  [][LET off == [S EXCEPT !.inst = [id \in DOMAIN inst |->
                                      [inst[id] EXCEPT !.isActive = FALSE]]]
     IN /\ \A l \in DOMAIN tracks' : \A i \in 1..Len(tracks'[l]) :
             LET id == tracks'[l][i]
             IN /\ inst'[id].type = 1
                /\ inst'[id].track = l
                /\ \A m \in DOMAIN tracks' : \A j \in 1..Len(tracks'[m]) :
                     tracks'[m][j] = id => (m = l /\ j = i)
                /\ (AnimationFrame(CfgMain) /\ enabled) =>
                     inst'[id].isActive /\ id \in MapValues(active')
        /\ \A w \in {50, 100} :
             /\ FindAvailableTrack(S', w, containerWidth')
                  = FindAvailableTrack(CleanupTracks(S'), w, containerWidth')
             /\ DOMAIN tracks # {} =>
                  FindAvailableTrack(off, w, containerWidth) = 0]_vars

\* lane 0 records a released occupant and, behind it, the Active instance
\* that entered the lane past it
C37_Witness ==
  /\ 0 \in DOMAIN tracks /\ Len(tracks[0]) = 2
  /\ ~inst[tracks[0][1]].isActive
  /\ inst[tracks[0][2]].isActive /\ tracks[0][2] \in MapValues(active)
\* C38: a tick that moves the playback clock forward force-expires no
\* Active instance and clears no Dedup key, and the events it admits are
\* due in [t, t + window) at the new position t: none that the jump has
\* skipped over
C38_ForwardJump ==
  [][(tick'.op = "tick" /\ currentTime' > currentTime) =>
       /\ \A i \in 1..Len(active) :
            inst[active[i][2]].isActive =>
              /\ MapHas(active', active[i][1])
              /\ inst'[MapGet(active', active[i][1])].isActive
              /\ inst'[MapGet(active', active[i][1])].startTime
                   = inst[active[i][2]].startTime
       /\ displayed \subseteq displayed'
       /\ \A k \in MapKeys(active') \ MapKeys(active) :
            /\ k[1] >= currentTime'
            /\ k[1] < currentTime' + 2 * TimeWindow(density)]_vars

\* a forward jump has admitted an event while an instance admitted at an
\* earlier position is still Active with its key in the Dedup Set
C38_Witness ==
  /\ tick.op = "tick" /\ tick.created >= 1 /\ lastCurrentTime = currentTime
  /\ \E i, j \in 1..Len(active) :
       LET o == inst[active[i][2]]
           n == inst[active[j][2]]
       IN /\ o.isActive /\ o.startTime < currentTime /\ active[i][1] \in displayed
          /\ n.isActive /\ n.startTime = currentTime /\ active[j][1][1] >= currentTime
====
